---------------------------- MODULE Spec2Model ----------------------------
(***************************************************************************)
(* A model of dugong's HTTPConnection (src/dugong/__init__.py): the read   *)
(* buffer, the delimiter-bounded read, the status/header/chunk parsers,    *)
(* the identity and chunked body readers, the pipelining queue and the     *)
(* 100-continue choreography, driven by a sole caller that runs every      *)
(* coroutine to its end, against a server that answers requests in order.  *)
(*                                                                         *)
(* Bytes are integers.  CR, LF, ';' and the decimal digits keep their      *)
(* ASCII codes; a word of a status line or of a header block (the text     *)
(* "HTTP/1.1", "200 OK", a header name and value) is one symbol.  The      *)
(* buffer capacity is scaled down so that a response spans several         *)
(* buffers; delimiters keep their lengths (2 and 4).                       *)
(*                                                                         *)
(* A socket read that finds nothing (BlockingIOError) is a GAP symbol in   *)
(* the incoming stream or the end of what the server has sent so far.  A   *)
(* coroutine that yields PollNeeded is resumed once data is there: an      *)
(* operation whose data never comes is not enabled ("BLOCK").              *)
(***************************************************************************)
EXTENDS Integers, Sequences, FiniteSets, TLC

\* ------------------------------------------------------------ bounds
\* Requests sent on one connection.
MaxReqs == 2
\* requests of the specification that delivers the response over time
MaxLive == 1
\* Longest response body (identity) the server sends.
MaxBody == 2
\* Longest request body, and largest length passed to write.
MaxLen == 1
\* GAP symbols (moments with nothing to read) inside one response body.
MaxGaps == 1
\* buffers handed to the send path, their length, suspensions per buffer
MaxSends == 2
MaxBuf == 3
MaxPolls == 1
\* operations on one CaseInsensitiveDict
MaxOps == 3
\* longest declared length of a request body written in pieces
MaxDecl == 3
\* bytes the socket holds unread when the server adds a provisional response
MaxUnread == 6
\* longest byte stream given to the delimiter-bounded read
MaxStream == 6

\* ------------------------------------------------------------ bytes
NUL == 0
LF == 10
CR == 13
SEMI == 59
DIGIT0 == 48
\* symbols of the abstract alphabet
GAP == -1
HTTPVER == 72
HDR == 58
EXT == 88
TE_NONE == 80
TE_CHUNKED == 81
TE_IDENTITY == 82
TE_OTHER == 83
CL_NONE == 90
STBASE == 10000
BODYBASE == 200

CRLF == <<CR, LF>>
CRLFCRLF == <<CR, LF, CR, LF>>

\* "Content-Length: n" as a symbol, and back (int(header['Content-Length']))
CLSym(n) == CL_NONE + 1 + n
CLVal(s) == s - CL_NONE - 1
\* "<status> <reason>": the reason phrase carries the server's tag
STSym(status, tag) == STBASE + 1000 * tag + status
IsST(s) == s >= STBASE
STStatus(s) == (s - STBASE) % 1000
STReason(s) == (s - STBASE) \div 1000
\* the i-th body byte of the response tagged tag
BodyByte(tag, i) == BODYBASE + 10 * tag + i
Digit(n) == DIGIT0 + n
IsDigit(s) == s >= DIGIT0 /\ s <= DIGIT0 + 9

\* ------------------------------------------------------------ constants
\* BUFFER_SIZE = 64*1024 in the source; scaled down.
BUFFER_SIZE == 8
MAX_LINE_SIZE == BUFFER_SIZE - 1
MAX_HEADER_SIZE == BUFFER_SIZE - 1
CHUNKED_ENCODING == "chunked_encoding"
IDENTITY_ENCODING == "identity_encoding"
WAITING_FOR_100c == -2
\* Python's None, for _in_remaining, body_len and HTTPResponse.length
None == -1
\* Python's None for _out_remaining (a tuple otherwise)
NoTuple == <<>>

\* ------------------------------------------------------------ helpers
Min(a, b) == IF a < b THEN a ELSE b
Max(a, b) == IF a > b THEN a ELSE b
Zeros(n) == [i \in 1..n |-> NUL]
\* Python's s[lo:hi] for lo, hi >= 0
Slice(s, lo, hi) == SubSeq(s, lo + 1, Min(hi, Len(s)))

\* a slice index as Python reads it: a negative one counts from the end
PyIndex(s, i) == IF i < 0 THEN Max(0, i + Len(s)) ELSE Min(i, Len(s))

\* s[lo:hi] for any integers lo, hi
PySlice(s, lo, hi) == SubSeq(s, PyIndex(s, lo) + 1, PyIndex(s, hi))
\* Python's s[-n:]
LastN(s, n) == SubSeq(s, Max(1, Len(s) - n + 1), Len(s))
\* Python's bytes.find(sub, lo, hi); a negative hi counts from the end
Find(s, sub, lo, hi) ==
    LET h == IF hi < 0 THEN Max(0, Len(s) + hi) ELSE Min(hi, Len(s))
        hits == {i \in lo..(h - Len(sub)) : SubSeq(s, i + 1, i + Len(sub)) = sub}
    IN  IF hits = {} THEN -1 ELSE CHOOSE i \in hits : \A j \in hits : i <= j
\* Python's s.find(sub)
FindIn(s, sub) == Find(s, sub, 0, Len(s))

\* results of a coroutine: the connection after it, the exception ("" for
\* none, "BLOCK" when it waits for data that has not been sent), the value
Ok(c, v) == [c |-> c, exc |-> "", val |-> v]
Raise(c, e) == [c |-> c, exc |-> e, val |-> <<>>]
Block(c) == [c |-> c, exc |-> "BLOCK", val |-> <<>>]

\* ------------------------------------------------------------ _join
\* buf[i:i+len_] = part, for each part
RECURSIVE join_fill(_, _, _)
join_fill(buf, parts, i) ==
    IF parts = <<>> THEN buf
    ELSE join_fill(Slice(buf, 0, i) \o Head(parts)
                       \o Slice(buf, i + Len(Head(parts)), Len(buf)),
                   Tail(parts), i + Len(Head(parts)))

\* size += len(parts) for each part: the number of parts, squared
join_size(parts) == Len(parts) * Len(parts)

join(parts) == join_fill(Zeros(join_size(parts)), parts, 0)

\* ------------------------------------------------------------ _Buffer
buf_len(c) == c.e - c.b

clear(c) == [c EXCEPT !.b = 0, !.e = 0]

compact(c) ==
    IF c.b = 0 THEN c
    ELSE [c EXCEPT !.d = Slice(c.d, c.b, c.e) \o Zeros(BUFFER_SIZE - (c.e - c.b)),
                   !.b = 0, !.e = c.e - c.b]

exhaust(c) ==
    IF c.b = 0
    THEN Ok([c EXCEPT !.d = Zeros(BUFFER_SIZE), !.b = 0, !.e = 0], Slice(c.d, 0, c.e))
    ELSE Ok(clear(c), Slice(c.d, c.b, c.e))

\* ------------------------------------------------------------ socket
\* the bytes a recv of n bytes finds: up to the next GAP
RECURSIVE Avail(_, _)
Avail(s, n) ==
    IF n = 0 \/ s = <<>> \/ Head(s) = GAP THEN <<>>
    ELSE <<Head(s)>> \o Avail(Tail(s), n - 1)

recv_bytes(c, bytes) ==
    Ok([c EXCEPT !.sin = SubSeq(@, Len(bytes) + 1, Len(@))], bytes)

\* sock.recv_into(view of n bytes): val = the bytes read; exc = "BlockingIOError"
\* when nothing is there (a GAP passes)
recv_into(c, n) ==
    IF c.sin = <<>> THEN Raise(c, "BlockingIOError")
    ELSE IF Head(c.sin) = GAP THEN Raise([c EXCEPT !.sin = Tail(c.sin)], "BlockingIOError")
    ELSE recv_bytes(c, Avail(c.sin, n))

\* r is what recv_into gave, c the connection before it
fill_buffer_got(c, r) ==
    IF r.exc = "BlockingIOError" THEN Ok(r.c, <<>>)
    ELSE IF Len(r.val) = 0
         THEN Raise(r.c, IF c.e < BUFFER_SIZE THEN "ConnectionClosed" ELSE "AssertionError")
    ELSE Ok([r.c EXCEPT !.d = Slice(c.d, 0, c.e) \o r.val
                                \o Slice(c.d, c.e + Len(r.val), BUFFER_SIZE),
                        !.e = c.e + Len(r.val)], r.val)

\* val = the bytes read into the buffer (<<>> for None)
try_fill_buffer(c) == fill_buffer_got(c, recv_into(c, BUFFER_SIZE - c.e))

RECURSIVE co_fill_buffer(_, _)
\* if not self._try_fill_buffer(): yield PollNeeded
fill_buffer_poll(f, len_) ==
    IF f.exc # "" THEN f
    ELSE IF f.val = <<>> /\ f.c.sin = <<>> THEN Block(f.c)
    ELSE co_fill_buffer(f.c, len_)

co_fill_buffer(c, len_) ==
    IF ~c.sock THEN Raise(c, "AttributeError")
    ELSE IF buf_len(c) >= len_ THEN Ok(c, <<>>)
    ELSE fill_buffer_poll(try_fill_buffer(IF BUFFER_SIZE - c.b < len_ THEN compact(c)
                                          ELSE c), len_)

\* ------------------------------------------------------------ _co_readstr_until
RECURSIVE refill(_)
refill_poll(f) ==
    IF f.exc # "" THEN f
    ELSE IF f.val # <<>> THEN f
    ELSE IF f.c.sin = <<>> THEN Block(f.c)
    ELSE refill(f.c)

\* while not self._try_fill_buffer(): yield PollNeeded
refill(c) == refill_poll(try_fill_buffer(c))

\* buf = rbuf.d[rbuf.b:idx]; if parts: buf = _join(parts + [buf])
readstr_return(c, parts, buf) ==
    Ok(c, IF parts # <<>> THEN join(Append(parts, buf)) ELSE buf)

\* idx0 is idx at the break of the loop
readstr_found(c, substr, parts, idx0) ==
    readstr_return([c EXCEPT !.b = idx0 + Len(substr)], parts,
                   Slice(c.d, c.b, idx0 + Len(substr)))

\* "substr may be split between last part and current buffer": buf.find(substr)
readstr_straddle(c, substr, parts) ==
    IF parts # <<>> /\ Len(substr) > 1
    THEN FindIn(join(<<LastN(parts[Len(parts)], Len(substr)),
                       Slice(c.d, c.b, Min(c.e, c.b + Len(substr) - 1))>>), substr)
    ELSE -1

RECURSIVE readstr_loop(_, _, _, _)
readstr_refilled(f, substr, maxsize, parts) ==
    IF f.exc # "" THEN f ELSE readstr_loop(f.c, substr, maxsize, parts)

\* "buffer is full, storing part": x is what rbuf.exhaust() gave
readstr_store(x, substr, maxsize, parts) ==
    readstr_refilled(refill(x.c), substr, maxsize - Len(x.val), Append(parts, x.val))

\* sidx and idx are what the two searches gave
readstr_step(c, substr, maxsize, parts, sidx, idx) ==
    IF sidx >= 0 THEN readstr_found(c, substr, parts, sidx - Len(substr))
    ELSE IF idx >= 0 THEN readstr_found(c, substr, parts, idx)
    ELSE IF Min(c.e, c.b + maxsize) # c.e THEN Raise(c, "_ChunkTooLong")
    ELSE IF c.e = BUFFER_SIZE THEN readstr_store(exhaust(c), substr, maxsize, parts)
    ELSE readstr_refilled(refill(c), substr, maxsize, parts)

readstr_loop(c, substr, maxsize, parts) ==
    readstr_step(c, substr, maxsize, parts, readstr_straddle(c, substr, parts),
                 Find(c.d, substr, c.b, Min(c.e, c.b + maxsize)))

co_readstr_until(c, substr, maxsize) ==
    IF ~c.sock THEN Raise(c, "AttributeError")
    ELSE IF ~(BUFFER_SIZE > Len(substr)) THEN Raise(c, "AssertionError")
    ELSE readstr_loop(c, substr, maxsize, <<>>)

\* ------------------------------------------------------------ status, header
\* line.split(None, 2): the words of the line (CR and LF are whitespace)
Words(line) == SelectSeq(line, LAMBDA x : x # CR /\ x # LF)

\* version, status, reason = fields; val = <<status, reason>>
parse_status(c, fields) ==
    IF Len(fields) < 2 \/ fields[1] # HTTPVER THEN Raise(c, "UnsupportedResponse")
    ELSE IF ~IsST(fields[2]) \/ STStatus(fields[2]) < 100 THEN Raise(c, "InvalidResponse")
    ELSE Ok(c, <<STStatus(fields[2]), STReason(fields[2])>>)

\* r is what _co_readstr_until gave
status_line(r) ==
    IF r.exc = "_ChunkTooLong" THEN Raise(r.c, "InvalidResponse")
    ELSE IF r.exc # "" THEN r
    ELSE parse_status(r.c, Words(r.val))

co_read_status(c) == status_line(co_readstr_until(c, CRLF, MAX_LINE_SIZE))

header_string(r) ==
    IF r.exc = "_ChunkTooLong" THEN Raise(r.c, "InvalidResponse") ELSE r

\* "Peek into buffer": an empty header, or the block up to the blank line
header_peek(f) ==
    IF f.exc # "" THEN f
    ELSE IF Slice(f.c.d, f.c.b, f.c.b + 2) = CRLF THEN Ok([f.c EXCEPT !.b = @ + 2], <<>>)
    ELSE header_string(co_readstr_until(f.c, CRLFCRLF, MAX_HEADER_SIZE))

\* val = hstring
co_read_header(c) ==
    header_peek(IF buf_len(c) < 2 THEN co_fill_buffer(c, 2) ELSE Ok(c, <<>>))

\* email.message_from_string(hstring): header['Transfer-Encoding'] (lower case)
\* and header['Content-Length'] of a block <<HDR, te, cl, CR, LF, CR, LF>>
HeaderTE(h) == IF Len(h) >= 3 /\ h[1] = HDR THEN h[2] ELSE TE_NONE
HeaderCL(h) == IF Len(h) >= 3 /\ h[1] = HDR THEN h[3] ELSE CL_NONE

\* ------------------------------------------------------------ co_read_response
RECURSIVE status_loop(_, _)
\* hands every status 100 to the caller
status_break_any100(s, h, body_size) ==
    IF h.exc # "" THEN h
    ELSE IF s.val[1] < 100 \/ s.val[1] > 199 THEN Ok(h.c, <<s.val[1], s.val[2], h.val>>)
    ELSE IF s.val[1] = 100 THEN Ok(h.c, <<s.val[1], s.val[2], h.val>>)
    ELSE status_loop(h.c, body_size)

\* s is the status line read, h the header read after it
status_break(s, h, body_size) ==
    IF h.exc # "" THEN h
    ELSE IF s.val[1] < 100 \/ s.val[1] > 199 THEN Ok(h.c, <<s.val[1], s.val[2], h.val>>)
    ELSE IF body_size # None /\ s.val[1] = 100 THEN Ok(h.c, <<s.val[1], s.val[2], h.val>>)
    ELSE status_loop(h.c, body_size)

status_header(s, body_size) ==
    IF s.exc # "" THEN s ELSE status_break(s, co_read_header(s.c), body_size)

\* the loop over 1xx responses; val = <<status, reason, hstring>>
status_loop(c, body_size) == status_header(co_read_status(c), body_size)

\* the encoding named by Transfer-Encoding
set_encoding(c, tc) ==
    IF tc # TE_NONE /\ tc = TE_CHUNKED THEN [c EXCEPT !.enc = CHUNKED_ENCODING, !.inrem = 0]
    ELSE IF tc # TE_NONE /\ tc # TE_IDENTITY THEN [c EXCEPT !.enc = "InvalidResponse"]
    ELSE [c EXCEPT !.enc = IDENTITY_ENCODING]

\* leaves _in_remaining as it is when the length is missing
set_length_unarmed(c, method, status, cl) ==
    IF status = 204 \/ status = 304 \/ (100 <= status /\ status < 200) \/ method = "HEAD"
    THEN Ok([c EXCEPT !.inrem = 0, !.enc = IDENTITY_ENCODING], 0)
    ELSE IF c.enc = CHUNKED_ENCODING THEN Ok(c, None)
    ELSE IF cl = CL_NONE /\ c.enc # "InvalidResponse"
    THEN Ok([c EXCEPT !.enc = "UnsupportedResponse"], None)
    ELSE IF cl = CL_NONE THEN Raise(c, "TypeError")
    ELSE Ok([c EXCEPT !.inrem = CLVal(cl)], CLVal(cl))

\* keeps the encoding the header named for a bodyless response
set_length_declared(c, method, status, cl) ==
    IF status = 204 \/ status = 304 \/ (100 <= status /\ status < 200) \/ method = "HEAD"
    THEN Ok([c EXCEPT !.inrem = 0], 0)
    ELSE IF c.enc = CHUNKED_ENCODING THEN Ok(c, None)
    ELSE IF cl = CL_NONE /\ c.enc # "InvalidResponse"
    THEN Ok([c EXCEPT !.enc = "UnsupportedResponse", !.inrem = 0], None)
    ELSE IF cl = CL_NONE THEN Raise(c, "TypeError")
    ELSE Ok([c EXCEPT !.inrem = CLVal(cl)], CLVal(cl))

\* "does the body have a fixed length?": val = body_length
set_length(c, method, status, cl) ==
    IF status = 204 \/ status = 304 \/ (100 <= status /\ status < 200) \/ method = "HEAD"
    THEN Ok([c EXCEPT !.inrem = 0, !.enc = IDENTITY_ENCODING], 0)
    ELSE IF c.enc = CHUNKED_ENCODING THEN Ok(c, None)
    ELSE IF cl = CL_NONE /\ c.enc # "InvalidResponse"
    THEN Ok([c EXCEPT !.enc = "UnsupportedResponse", !.inrem = 0], None)
    ELSE IF cl = CL_NONE THEN Raise(c, "TypeError")
    ELSE Ok([c EXCEPT !.inrem = CLVal(cl)], CLVal(cl))

\* "Prepare to read body"
prepare_body(c, method, status, header) ==
    set_length(set_encoding(c, HeaderTE(header)), method, status, HeaderCL(header))

\* leaves the request in the queue
continue_100_queued(c) == [c EXCEPT !.outrem = Head(c.pend), !.inrem = None]

\* "Handle (expected) 100-continue": the head of the queue becomes
\* _out_remaining, no body is to be read
continue_100(c) ==
    [c EXCEPT !.outrem = Head(c.pend), !.pend = Tail(c.pend), !.inrem = None]

\* leaves _out_remaining as it is
reject_100_waiting(c) == c

\* "Handle non-100 status when waiting for 100-continue"
reject_100(c) == [c EXCEPT !.outrem = NoTuple]

\* p is what prepare_body gave
response_object(p, status, reason) ==
    IF p.exc # "" THEN p ELSE Ok(p.c, <<status, reason, p.val>>)

\* forgets the outbound remainder at every final response
response_status_clearing(r, req) ==
    IF r.exc # "" THEN r
    ELSE IF r.val[1] = 100
    THEN IF r.c.outrem # <<req[1], req[2], WAITING_FOR_100c>>
         THEN Raise(r.c, "AssertionError")
         ELSE Ok(continue_100(r.c), <<r.val[1], r.val[2], 0>>)
    ELSE IF req[3] # None /\ r.c.outrem # <<req[1], req[2], WAITING_FOR_100c>>
    THEN Raise(r.c, "AssertionError")
    ELSE response_object(prepare_body(reject_100(r.c), req[1], r.val[1], r.val[3]),
                         r.val[1], r.val[2])

\* r is what the loop gave, req the head of the queue
response_status(r, req) ==
    IF r.exc # "" THEN r
    ELSE IF r.val[1] = 100
    THEN IF r.c.outrem # <<req[1], req[2], WAITING_FOR_100c>>
         THEN Raise(r.c, "AssertionError")
         ELSE Ok(continue_100(r.c), <<r.val[1], r.val[2], 0>>)
    ELSE IF req[3] # None /\ r.c.outrem # <<req[1], req[2], WAITING_FOR_100c>>
    THEN Raise(r.c, "AssertionError")
    ELSE response_object(prepare_body(IF req[3] # None THEN reject_100(r.c) ELSE r.c,
                                      req[1], r.val[1], r.val[3]),
                         r.val[1], r.val[2])

\* reads the next status line although a body is still open
co_read_response_reentrant(c) ==
    IF Len(c.pend) = 0 THEN Raise(c, "StateError")
    ELSE response_status(status_loop(c, c.pend[1][3]), c.pend[1])

\* val = <<status, reason, length>> of the HTTPResponse
co_read_response(c) ==
    IF Len(c.pend) = 0 THEN Raise(c, "StateError")
    ELSE IF c.inrem # None THEN Raise(c, "StateError")
    ELSE response_status(status_loop(c, c.pend[1][3]), c.pend[1])

\* ------------------------------------------------------------ identity body
\* a pop from the wrong end of the queue
pop(c) == [c EXCEPT !.pend = SubSeq(@, 1, Len(@) - 1)]

\* self._pending_requests.popleft()
popleft(c) == [c EXCEPT !.pend = Tail(@)]

\* "Body retrieved completely, clean up"
body_done(c) ==
    IF c.pend = <<>> THEN Raise([c EXCEPT !.inrem = None], "IndexError")
    ELSE Ok(popleft([c EXCEPT !.inrem = None]), <<>>)

\* the condition of the fill loop of _co_read_id
read_id_more(c, len_) == buf_len(c) < len_ /\ c.e < BUFFER_SIZE

RECURSIVE read_id_fill(_, _)
\* f is what _try_fill_buffer gave
read_id_poll(f, len_) ==
    IF f.exc # "" THEN f
    ELSE IF f.val = <<>> /\ buf_len(f.c) = 0
    THEN IF f.c.sin = <<>> THEN Block(f.c) ELSE read_id_fill(f.c, len_)
    ELSE IF f.val = <<>> THEN Ok(f.c, <<>>)
    ELSE read_id_fill(f.c, len_)

read_id_fill(c, len_) ==
    IF read_id_more(c, len_) THEN read_id_poll(try_fill_buffer(c), len_) ELSE Ok(c, <<>>)

\* len_ = min(len_, len(rbuf)) bytes leave the buffer
read_id_take(c, len_) ==
    IF len_ < buf_len(c)
    THEN Ok([c EXCEPT !.inrem = @ - len_, !.b = @ + len_], PySlice(c.d, c.b, c.b + len_))
    ELSE exhaust([c EXCEPT !.inrem = @ - len_])

read_id_filled(f, len_) ==
    IF f.exc # "" THEN f ELSE read_id_take(f.c, Min(len_, buf_len(f.c)))

\* reads len_ bytes whatever the body has left
co_read_id_unbounded(c, len_) ==
    IF c.inrem = None THEN Raise(c, "AssertionError")
    ELSE IF c.inrem = 0 THEN body_done(c)
    ELSE IF ~c.sock THEN Raise(c, "AttributeError")
    ELSE read_id_filled(read_id_fill(c, len_), len_)

co_read_id(c, len_) ==
    IF c.inrem = None THEN Raise(c, "AssertionError")
    ELSE IF c.inrem = 0 THEN body_done(c)
    ELSE IF ~c.sock THEN Raise(c, "AttributeError")
    ELSE read_id_filled(read_id_fill(c, Min(len_, c.inrem)), Min(len_, c.inrem))

RECURSIVE readinto_recv(_, _, _)
\* r is what sock.recv_into gave; got = buf[:pos]
readinto_read(r, got, len_) ==
    IF r.exc = "BlockingIOError"
    THEN IF got # <<>> THEN Ok(r.c, got)
         ELSE IF r.c.sin = <<>> THEN Block(r.c)
         ELSE readinto_recv(r.c, got, len_)
    ELSE IF r.val = <<>> THEN Raise(r.c, "ConnectionClosed")
    ELSE IF Len(got) + Len(r.val) = len_
    THEN Ok([r.c EXCEPT !.inrem = @ - Len(r.val)], got \o r.val)
    ELSE readinto_recv([r.c EXCEPT !.inrem = @ - Len(r.val)], got \o r.val, len_)

\* the recv loop of _co_readinto_id
readinto_recv(c, got, len_) == readinto_read(recv_into(c, len_ - Len(got)), got, len_)

\* pos bytes leave the buffer
readinto_take(c, pos) ==
    IF c.b + pos = c.e THEN [c EXCEPT !.b = 0, !.e = 0, !.inrem = @ - pos]
    ELSE [c EXCEPT !.b = @ + pos, !.inrem = @ - pos]

\* "First use read buffer contents"
readinto_buffered(c, len_, pos) ==
    IF pos = 0 THEN readinto_recv(c, <<>>, len_)
    ELSE IF pos = len_ THEN Ok(readinto_take(c, pos), PySlice(c.d, c.b, c.b + pos))
    ELSE IF buf_len(readinto_take(c, pos)) # 0
    THEN Raise(readinto_take(c, pos), "AssertionError")
    ELSE readinto_recv(readinto_take(c, pos), Slice(c.d, c.b, c.b + pos), len_)

\* buf[:pos] = rbuf.d[rbuf.b:rbuf.b+pos] needs both sides of one length
readinto_copy(c, buflen, len_, pos) ==
    IF Len(PySlice(Zeros(buflen), 0, pos)) # Len(PySlice(c.d, c.b, c.b + pos))
    THEN Raise(c, "ValueError")
    ELSE readinto_buffered(c, len_, pos)

\* val = the bytes written into buf (the count returned is their number)
co_readinto_id(c, buflen) ==
    IF c.inrem = None THEN Raise(c, "AssertionError")
    ELSE IF c.inrem = 0 THEN body_done(c)
    ELSE IF ~c.sock THEN Raise(c, "AttributeError")
    ELSE readinto_copy(c, buflen, Min(buflen, c.inrem),
                       Min(buf_len(c), Min(buflen, c.inrem)))

\* ------------------------------------------------------------ chunked body
\* what int() ignores around the number
RECURSIVE strip(_)
strip(s) ==
    IF s # <<>> /\ s[Len(s)] \in {CR, LF} THEN strip(SubSeq(s, 1, Len(s) - 1))
    ELSE IF s # <<>> /\ s[1] \in {CR, LF} THEN strip(Tail(s))
    ELSE s

RECURSIVE hexval(_)
hexval(s) ==
    IF s = <<>> THEN 0
    ELSE 16 * hexval(SubSeq(s, 1, Len(s) - 1)) + (s[Len(s)] - DIGIT0)

\* int(t, 16); -1 for ValueError
hexint(t) ==
    IF t = <<>> \/ \E k \in 1..Len(t) : ~IsDigit(t[k]) THEN -1 ELSE hexval(t)

\* line[:i], i = line.find(";"), when i >= 0
strip_extensions(line, i) == IF i >= 0 THEN Slice(line, 0, i) ELSE line

chunk_size(line) == hexint(strip(strip_extensions(line, FindIn(line, <<SEMI>>))))

\* self._in_remaining = int(line, 16), and the last chunk
chunk_start(c, n) ==
    IF n < 0 THEN Raise(c, "InvalidResponse")
    ELSE IF n = 0 THEN body_done(c)
    ELSE Ok([c EXCEPT !.inrem = n], <<>>)

chunk_line(r) ==
    IF r.exc = "_ChunkTooLong" THEN Raise(r.c, "InvalidResponse")
    ELSE IF r.exc # "" THEN r
    ELSE chunk_start(r.c, chunk_size(r.val))

\* "starting next chunk"
next_chunk(c) == chunk_line(co_readstr_until(c, CRLF, MAX_LINE_SIZE))

\* h is what _co_read_header gave after the chunk; val = res
chunk_return(h, res) == IF h.exc # "" THEN h ELSE Ok(h.c, res)

\* leaves the CRLF after the last chunk unread
chunk_complete_lazy(res) ==
    IF res.exc # "" THEN res
    ELSE IF res.c.inrem = 0 THEN chunk_return(co_read_header(res.c), res.val)
    ELSE res

\* "chunk complete": res is what the identity reader gave
chunk_complete(res) ==
    IF res.exc # "" THEN res
    ELSE IF res.c.inrem = None \/ res.c.inrem = 0
    THEN chunk_return(co_read_header(res.c), res.val)
    ELSE res

\* s is the connection once the chunk is known
chunk_data(s, n, mode) ==
    IF s.exc # "" THEN s
    ELSE chunk_complete(IF s.c.inrem = None THEN Ok(s.c, <<>>)
                        ELSE IF mode = "readinto" THEN co_readinto_id(s.c, n)
                        ELSE co_read_id(s.c, n))

\* mode is "read" (len_ given) or "readinto" (buf given); n is len_ or len(buf)
co_read_chunked(c, n, mode) ==
    IF n = 0 \/ c.inrem = None THEN Raise(c, "AssertionError")
    ELSE chunk_data(IF c.inrem = 0 THEN next_chunk(c) ELSE Ok(c, <<>>), n, mode)

\* ------------------------------------------------------------ read, readinto
\* returns empty when no response is open
co_read_lenient(c, len_) ==
    IF len_ = 0 \/ c.inrem = None THEN Ok(c, <<>>)
    ELSE IF c.enc = IDENTITY_ENCODING THEN co_read_id(c, len_)
    ELSE IF c.enc = CHUNKED_ENCODING THEN co_read_chunked(c, len_, "read")
    ELSE IF c.enc \in {"InvalidResponse", "UnsupportedResponse"} THEN Raise(c, c.enc)
    ELSE Raise(c, "RuntimeError")

co_read(c, len_) ==
    IF len_ = 0 THEN Ok(c, <<>>)
    ELSE IF c.inrem = None THEN Raise(c, "StateError")
    ELSE IF c.enc = IDENTITY_ENCODING THEN co_read_id(c, len_)
    ELSE IF c.enc = CHUNKED_ENCODING THEN co_read_chunked(c, len_, "read")
    ELSE IF c.enc \in {"InvalidResponse", "UnsupportedResponse"} THEN Raise(c, c.enc)
    ELSE Raise(c, "RuntimeError")

co_readinto(c, buflen) ==
    IF buflen = 0 THEN Ok(c, <<>>)
    ELSE IF c.inrem = None THEN Raise(c, "StateError")
    ELSE IF c.enc = IDENTITY_ENCODING THEN co_readinto_id(c, buflen)
    ELSE IF c.enc = CHUNKED_ENCODING THEN co_read_chunked(c, buflen, "readinto")
    ELSE IF c.enc \in {"InvalidResponse", "UnsupportedResponse"} THEN Raise(c, c.enc)
    ELSE Raise(c, "RuntimeError")

RECURSIVE readall_loop(_, _)
\* r is what co_read gave; parts = what the reads before it returned
readall_part(r, parts) ==
    IF r.exc # "" THEN [c |-> r.c, exc |-> r.exc, val |-> <<>>, parts |-> parts]
    ELSE IF r.val = <<>> THEN [c |-> r.c, exc |-> "", val |-> join(parts), parts |-> parts]
    ELSE readall_loop(r.c, Append(parts, r.val))

readall_loop(c, parts) == readall_part(co_read(c, BUFFER_SIZE), parts)

\* val = the joined body
co_readall(c) == readall_loop(c, <<>>)

RECURSIVE discard_loop(_, _)
\* r is what co_readinto gave; parts = what the calls before it wrote
discard_part(r, parts) ==
    IF r.exc # "" THEN [c |-> r.c, exc |-> r.exc, val |-> <<>>, parts |-> parts]
    ELSE IF r.val = <<>> THEN [c |-> r.c, exc |-> "", val |-> <<>>, parts |-> parts]
    ELSE discard_loop(r.c, Append(parts, r.val))

discard_loop(c, parts) == discard_part(co_readinto(c, BUFFER_SIZE), parts)

co_discard(c) == discard_loop(c, <<>>)

\* ------------------------------------------------------------ sending
REQBASE == 20000
DATA == 100
\* "METHOD PATH HTTP/1.1" and the request headers, as one symbol
ReqSym(path) == REQBASE + path
\* n bytes of request body
Data(n) == [i \in 1..n |-> DATA]

\* the socket is writable and takes the whole buffer; without a socket,
\* self._sock.fileno() fails
co_send(c, buf) ==
    IF ~c.sock THEN Raise(c, "AttributeError") ELSE Ok([c EXCEPT !.sout = @ \o buf], <<>>)

\* without proxy and TLS: a new socket and the resets of connect()
connect(c) ==
    [c EXCEPT !.sock = TRUE, !.blk = FALSE, !.sin = <<>>, !.sout = <<>>, !.b = 0,
              !.e = 0, !.outrem = NoTuple, !.inrem = None, !.pend = <<>>]

\* the socket is shut down and closed (what it held is gone), the read
\* buffer cleared
disconnect(c) ==
    IF c.sock THEN [c EXCEPT !.sock = FALSE, !.sin = <<>>, !.b = 0, !.e = 0] ELSE c

\* _co_tunnel: h is what _co_read_header gave, status what _co_read_status gave
tunnel_header(h, status) ==
    IF h.exc # "" THEN h
    ELSE IF status # 200 THEN Raise(disconnect(h.c), "ConnectionError")
    ELSE Ok(h.c, <<>>)

tunnel_status(st) ==
    IF st.exc # "" THEN st ELSE tunnel_header(co_read_header(st.c), st.val[1])

\* s is what _co_send gave; answer is what the proxy sends back
tunnel_sent(s, answer) ==
    IF s.exc # "" THEN s ELSE tunnel_status(co_read_status([s.c EXCEPT !.sin = answer]))

\* "CONNECT host:port HTTP/1.0" is the request symbol of path 0
co_tunnel(c, answer) == tunnel_sent(co_send(c, <<ReqSym(0)>>), answer)

\* socket.create_connection(): a new socket, in blocking mode
create_connection(c) == [c EXCEPT !.sock = TRUE, !.blk = TRUE, !.sin = <<>>, !.sout = <<>>]

\* the end of connect(): setblocking(False) and the resets
connect_done(c) ==
    Ok([c EXCEPT !.blk = FALSE, !.b = 0, !.e = 0, !.outrem = NoTuple, !.inrem = None,
                 !.pend = <<>>], <<>>)

\* wrap_socket() raises when the handshake fails, before self._sock is
\* assigned; on a certificate for another host the handler calls self.close(),
\* which HTTPConnection does not define
connect_ssl(t, tls, env) ==
    IF t.exc # "" THEN t
    ELSE IF ~tls THEN connect_done(t.c)
    ELSE IF ~env.handshake THEN Raise(t.c, "SSLError")
    ELSE IF ~env.hostname THEN Raise(t.c, "AttributeError")
    ELSE connect_done(t.c)

\* connect() with a proxy and an ssl_context or without; env is what the
\* network does: [refused, answer, handshake, hostname]
connect_via(c, proxy, tls, env) ==
    IF env.refused THEN Raise(c, "ConnectionRefusedError")
    ELSE connect_ssl(IF proxy THEN co_tunnel(create_connection(c), env.answer)
                     ELSE Ok(create_connection(c), <<>>),
                     tls, env)

\* s is what _co_send gave
request_sent(s, method, path, pending_body_size, expect100) ==
    IF s.exc # "" THEN s
    ELSE IF s.c.outrem = NoTuple \/ expect100
    THEN Ok([s.c EXCEPT !.pend = Append(@, <<method, path, pending_body_size>>)], <<>>)
    ELSE s

\* owes the body at once, 100-continue or not
body_following_plain(c, method, path, blen, expect100) ==
    [c EXCEPT !.outrem = <<method, path, blen>>]

\* _out_remaining of a request whose body follows
body_following(c, method, path, blen, expect100) ==
    [c EXCEPT !.outrem = <<method, path, IF expect100 THEN WAITING_FOR_100c ELSE blen>>]

\* sends the request although body data is owed
request_on_unchecked(c, method, path, body, blen, expect100) ==
    request_sent(co_send(IF body = "following"
                         THEN body_following(c, method, path, blen, expect100)
                         ELSE c,
                         <<ReqSym(path)>> \o (IF body = "inline" THEN Data(blen) ELSE <<>>)),
                 method, path,
                 IF body = "following" /\ expect100 THEN blen ELSE None, expect100)

\* the request on a connected socket
request_on(c, method, path, body, blen, expect100) ==
    IF c.outrem # NoTuple THEN Raise(c, "StateError")
    ELSE request_sent(co_send(IF body = "following"
                              THEN body_following(c, method, path, blen, expect100)
                              ELSE c,
                              <<ReqSym(path)>> \o (IF body = "inline" THEN Data(blen)
                                                   ELSE <<>>)),
                      method, path,
                      IF body = "following" /\ expect100 THEN blen ELSE None, expect100)

\* body is None ("none"), a bytes-like object of blen bytes ("inline") or
\* BodyFollowing(blen) ("following")
co_send_request(c, method, path, body, blen, expect100) ==
    IF expect100 /\ body # "following" THEN Raise(c, "ValueError")
    ELSE request_on(IF ~c.sock THEN connect(c) ELSE c, method, path, body, blen, expect100)

\* co_send_request up to "yield from self._co_send(buf)"; val = buf
request_prepared(c, method, path, body, blen, expect100) ==
    IF c.outrem # NoTuple THEN Raise(c, "StateError")
    ELSE Ok(IF body = "following" THEN body_following(c, method, path, blen, expect100)
            ELSE c,
            <<ReqSym(path)>> \o (IF body = "inline" THEN Data(blen) ELSE <<>>))

send_request_begin(c, method, path, body, blen, expect100) ==
    IF expect100 /\ body # "following" THEN Raise(c, "ValueError")
    ELSE request_prepared(IF ~c.sock THEN connect(c) ELSE c, method, path, body, blen,
                          expect100)

\* co_send_request from there, once the socket is writable
send_request_resume(c, buf, method, path, body, blen, expect100) ==
    request_sent(co_send(c, buf), method, path,
                 IF body = "following" /\ expect100 THEN blen ELSE None, expect100)

\* takes the body for sent when one byte is still owed
body_sent_early(s, method, path, remaining, n) ==
    IF s.exc # "" THEN s
    ELSE IF n >= remaining - 1
    THEN Ok([s.c EXCEPT !.outrem = NoTuple,
                        !.pend = Append(@, <<method, path, None>>)], <<>>)
    ELSE Ok([s.c EXCEPT !.outrem = <<method, path, remaining - n>>], <<>>)

\* s is what _co_send gave: len_ == remaining, or not
body_sent(s, method, path, remaining, n) ==
    IF s.exc # "" THEN s
    ELSE IF n = remaining
    THEN Ok([s.c EXCEPT !.outrem = NoTuple,
                        !.pend = Append(@, <<method, path, None>>)], <<>>)
    ELSE Ok([s.c EXCEPT !.outrem = <<method, path, remaining - n>>], <<>>)

\* hands the bytes to the socket before it looks at the declared length
co_write_unchecked(c, n) ==
    IF c.outrem = NoTuple THEN Raise(c, "StateError")
    ELSE IF c.outrem[3] = WAITING_FOR_100c THEN Raise(c, "StateError")
    ELSE IF n > c.outrem[3] THEN Raise(co_send(c, Data(n)).c, "ExcessBodyData")
    ELSE body_sent(co_send(c, Data(n)), c.outrem[1], c.outrem[2], c.outrem[3], n)

co_write(c, n) ==
    IF c.outrem = NoTuple THEN Raise(c, "StateError")
    ELSE IF c.outrem[3] = WAITING_FOR_100c THEN Raise(c, "StateError")
    ELSE IF n > c.outrem[3] THEN Raise(c, "ExcessBodyData")
    ELSE body_sent(co_send(c, Data(n)), c.outrem[1], c.outrem[2], c.outrem[3], n)

\* counts _out_remaining too
response_pending_or_sending(c) == Len(c.pend) > 0 \/ c.outrem # NoTuple

response_pending(c) == Len(c.pend) > 0

\* ------------------------------------------------------------ CaseInsensitiveDict
\* a key is a string, a sequence of ASCII codes; str.lower() and str.upper()
UPPER_A == 65
UPPER_Z == 90
LOWER_A == 97
LOWER_Z == 122
CASE_GAP == 32
lower_char(ch) == IF ch >= UPPER_A /\ ch <= UPPER_Z THEN ch + CASE_GAP ELSE ch
upper_char(ch) == IF ch >= LOWER_A /\ ch <= LOWER_Z THEN ch - CASE_GAP ELSE ch
lower(key) == [i \in 1..Len(key) |-> lower_char(key[i])]
upper(key) == [i \in 1..Len(key) |-> upper_char(key[i])]

\* _store is a dict: its items in insertion order, [lk, key, val] for
\* _store[lk] = (key, val)
store_index(store, lk) == {i \in 1..Len(store) : store[i].lk = lk}

\* dict[lk] = (key, val): an old entry keeps its place
store_put(store, lk, key, val) ==
    IF store_index(store, lk) # {}
    THEN [i \in 1..Len(store) |-> IF store[i].lk = lk
                                  THEN [lk |-> lk, key |-> key, val |-> val]
                                  ELSE store[i]]
    ELSE Append(store, [lk |-> lk, key |-> key, val |-> val])

\* stores under the key as it was written
setitem_cased(store, key, val) == store_put(store, key, key, val)

\* __setitem__
setitem(store, key, val) == store_put(store, lower(key), key, val)

\* __getitem__: [exc, val]
getitem(store, key) ==
    IF store_index(store, lower(key)) = {} THEN [exc |-> "KeyError", val |-> 0]
    ELSE [exc |-> "", val |-> store[CHOOSE i \in store_index(store, lower(key)) : TRUE].val]

\* Mapping.__contains__: self[key] without KeyError
contains(store, key) == getitem(store, key).exc = ""

\* __delitem__: [exc, store]
delitem(store, key) ==
    IF store_index(store, lower(key)) = {} THEN [exc |-> "KeyError", store |-> store]
    ELSE [exc |-> "", store |-> SelectSeq(store, LAMBDA x : x.lk # lower(key))]

\* list(__iter__())
iter(store) == [i \in 1..Len(store) |-> store[i].key]

\* __len__
len(store) == Len(store)

\* dict(lower_items()), as the set of its items
lower_items(store) == {<<store[i].lk, store[i].val>> : i \in 1..Len(store)}

\* CaseInsensitiveDict(other): update() sets the items of other in turn;
\* other is a mapping, the sequence of its items <<key, val>>
RECURSIVE from_mapping(_, _)
from_mapping(store, other) ==
    IF other = <<>> THEN store
    ELSE from_mapping(setitem(store, Head(other)[1], Head(other)[2]), Tail(other))

\* __eq__ with a Mapping
eq(store, other) == lower_items(store) = lower_items(from_mapping(<<>>, other))

\* ------------------------------------------------------------ state
VARIABLES
    sock,               \* _sock is not None
    rbuf,               \* _rbuf: [d, b, e]
    sock_in,            \* what the server sent and the socket has not yet read
    sock_out,           \* what the send path gave to the socket
    pending_requests,   \* _pending_requests: <<method, path, body_len>>
    out_remaining,      \* _out_remaining
    in_remaining,       \* _in_remaining
    encoding,           \* _encoding
    reqs,               \* history: the requests sent, in order
    srv,                \* the server: the request it answers next
    srv_sent,           \* history: the final responses sent: [kind, status, body]
    ret,                \* the last operation of the caller and its result
    pre,                \* the connection before that operation
    resps,              \* history: the descriptors read_response returned
    got,                \* history: body bytes returned for the open response
    snd,                \* a _co_send coroutine in steps: [pc, buf, subs, ...]
    blocking,           \* the socket, when there is one, is in blocking mode
    cid,                \* a CaseInsensitiveDict: [store, log, ret]
    seq,                \* the same operations, one after the other: [c, susp, same]
    live                \* the call in progress and the bytes on their way:
                        \* [op, arg, polls, wire, ready]

vars == <<sock, rbuf, sock_in, sock_out, pending_requests, out_remaining,
          in_remaining, encoding, reqs, srv, srv_sent, ret, pre, resps, got, snd,
          blocking, cid, seq, live>>

Conn ==
    [sock |-> sock, d |-> rbuf.d, b |-> rbuf.b, e |-> rbuf.e, sin |-> sock_in,
     sout |-> sock_out, pend |-> pending_requests, outrem |-> out_remaining,
     inrem |-> in_remaining, enc |-> encoding, blk |-> blocking]

SetConn(c) ==
    /\ sock' = c.sock
    /\ rbuf' = [d |-> c.d, b |-> c.b, e |-> c.e]
    /\ sock_in' = c.sin
    /\ sock_out' = c.sout
    /\ pending_requests' = c.pend
    /\ out_remaining' = c.outrem
    /\ in_remaining' = c.inrem
    /\ encoding' = c.enc
    /\ blocking' = c.blk

Snapshot ==
    [pend |-> pending_requests, outrem |-> out_remaining, inrem |-> in_remaining,
     nout |-> Len(sock_out), nin |-> Len(sock_in), b |-> rbuf.b, e |-> rbuf.e,
     enc |-> encoding, pending |-> response_pending(Conn), sock |-> sock]

Result(op, arg, r, parts) ==
    [op |-> op, arg |-> arg, exc |-> r.exc, val |-> r.val, parts |-> parts]

\* HTTPConnection.__init__
Init ==
    /\ sock = FALSE
    /\ blocking = FALSE
    /\ rbuf = [d |-> Zeros(BUFFER_SIZE), b |-> 0, e |-> 0]
    /\ sock_in = <<>>
    /\ sock_out = <<>>
    /\ pending_requests = <<>>
    /\ out_remaining = NoTuple
    /\ in_remaining = None
    /\ encoding = "None"
    /\ reqs = <<>>
    /\ srv = [idx |-> 1, cont |-> FALSE]
    /\ srv_sent = <<>>
    /\ ret = [op |-> "init", arg |-> 0, exc |-> "", val |-> <<>>, parts |-> <<>>]
    /\ pre = Snapshot
    /\ resps = <<>>
    /\ got = <<>>
    /\ snd = [pc |-> "idle", buf |-> <<>>, subs |-> <<>>, polls |-> 0, parts |-> 0,
              last |-> "none", before |-> 0, exc |-> ""]
    /\ cid = [store |-> <<>>, log |-> <<>>, ret |-> [op |-> "init", key |-> <<>>, exc |-> ""]]
    /\ seq = [c |-> Conn, susp |-> <<>>, same |-> TRUE, mid |-> 0]
    /\ live = [op |-> "none", arg |-> 0, polls |-> 0, wire |-> <<>>, ready |-> FALSE]

\* ------------------------------------------------------------ the caller
send_request(method, body, blen, expect100) ==
    \E r \in {co_send_request(Conn, method, Len(reqs) + 1, body, blen, expect100)} :
        /\ Len(reqs) < MaxReqs
        /\ SetConn(r.c)
        /\ ret' = Result("send_request", blen, r, <<>>)
        /\ pre' = Snapshot
        /\ reqs' = IF r.exc # "" THEN reqs
                   ELSE Append(reqs, [method |-> method, path |-> Len(reqs) + 1,
                                      body |-> body, blen |-> blen, expect |-> expect100,
                                      sent |-> 0, complete |-> body # "following"])
        /\ UNCHANGED <<snd, cid, live, seq, srv, srv_sent, resps, got>>

write(n) ==
    \E r \in {co_write(Conn, n)} :
        /\ SetConn(r.c)
        /\ ret' = Result("write", n, r, <<>>)
        /\ pre' = Snapshot
        /\ reqs' = IF r.exc # "" THEN reqs
                   ELSE [reqs EXCEPT ![out_remaining[2]].sent = @ + n,
                                     ![out_remaining[2]].complete =
                                         (reqs[out_remaining[2]].sent + n
                                          = reqs[out_remaining[2]].blen)]
        /\ UNCHANGED <<snd, cid, live, seq, srv, srv_sent, resps, got>>

read_response ==
    \E r \in {co_read_response(Conn)} :
        /\ r.exc # "BLOCK"
        /\ SetConn(r.c)
        /\ ret' = Result("read_response", 0, [r EXCEPT !.val = <<>>], <<>>)
        /\ pre' = Snapshot
        /\ resps' = IF r.exc # "" THEN resps
                    ELSE Append(resps, [method |-> pending_requests[1][1],
                                        path |-> pending_requests[1][2],
                                        status |-> r.val[1], reason |-> r.val[2],
                                        length |-> r.val[3]])
        /\ got' = IF r.exc = "" /\ r.val[1] # 100 THEN <<>> ELSE got
        /\ UNCHANGED <<snd, cid, live, seq, reqs, srv, srv_sent>>

read(len_) ==
    \E r \in {co_read(Conn, len_)} :
        /\ r.exc # "BLOCK"
        /\ SetConn(r.c)
        /\ ret' = Result("read", len_, r, <<>>)
        /\ pre' = Snapshot
        /\ got' = IF r.exc = "" THEN got \o r.val ELSE got
        /\ UNCHANGED <<snd, cid, live, seq, reqs, srv, srv_sent, resps>>

readinto(buflen) ==
    \E r \in {co_readinto(Conn, buflen)} :
        /\ r.exc # "BLOCK"
        /\ SetConn(r.c)
        /\ ret' = Result("readinto", buflen, r, <<>>)
        /\ pre' = Snapshot
        /\ got' = IF r.exc = "" THEN got \o r.val ELSE got
        /\ UNCHANGED <<snd, cid, live, seq, reqs, srv, srv_sent, resps>>

RECURSIVE Concat(_)
Concat(parts) == IF parts = <<>> THEN <<>> ELSE Head(parts) \o Concat(Tail(parts))

readall ==
    \E r \in {co_readall(Conn)} :
        /\ r.exc # "BLOCK"
        /\ SetConn(r.c)
        /\ ret' = Result("readall", 0, r, r.parts)
        /\ pre' = Snapshot
        /\ got' = got \o Concat(r.parts)
        /\ UNCHANGED <<snd, cid, live, seq, reqs, srv, srv_sent, resps>>

discard ==
    \E r \in {co_discard(Conn)} :
        /\ r.exc # "BLOCK"
        /\ SetConn(r.c)
        /\ ret' = Result("discard", 0, r, r.parts)
        /\ pre' = Snapshot
        /\ got' = got \o Concat(r.parts)
        /\ UNCHANGED <<snd, cid, live, seq, reqs, srv, srv_sent, resps>>

\* the server of the closed connection answers none of its requests
close ==
    /\ SetConn(disconnect(Conn))
    /\ ret' = [op |-> "disconnect", arg |-> 0, exc |-> "", val |-> <<>>, parts |-> <<>>]
    /\ pre' = Snapshot
    /\ srv' = [idx |-> Len(reqs) + 1, cont |-> FALSE]
    /\ UNCHANGED <<snd, cid, live, seq, reqs, srv_sent, resps, got>>

\* _co_readstr_until(substr, maxsize), run to its end, once
readstr(substr, maxsize) ==
    \E r \in {co_readstr_until(Conn, substr, maxsize)} :
        /\ ret.op = "init"
        /\ r.exc # "BLOCK"
        /\ SetConn(r.c)
        /\ ret' = Result("readstr", Len(substr), r, <<>>)
        /\ pre' = Snapshot
        /\ UNCHANGED <<snd, cid, live, seq, reqs, srv, srv_sent, resps, got>>

\* the connection of the sequential execution, on the socket and the read
\* buffer as they are
Shadow == [seq.c EXCEPT !.sin = sock_in, !.d = rbuf.d, !.b = rbuf.b, !.e = rbuf.e]

\* the operation gave the same in both executions
Agree(r, q) ==
    /\ r.exc = q.exc
    /\ r.val = q.val
    /\ r.c.sin = q.c.sin
    /\ r.c.d = q.c.d /\ r.c.b = q.c.b /\ r.c.e = q.c.e

\* the number of reads that returned a value while the send_request is
\* suspended, r being what one more gave
Interleaved(r) ==
    IF seq.susp # <<>> /\ r.exc = "" THEN Min(seq.mid + 1, MaxOps) ELSE seq.mid

\* send_request runs up to its first PollNeeded and is suspended there
send_begin(method, body, blen, expect100) ==
    \E r \in {send_request_begin(Conn, method, Len(reqs) + 1, body, blen, expect100)} :
        /\ seq.susp = <<>>
        /\ Len(reqs) < MaxReqs
        /\ r.exc = ""
        /\ SetConn(r.c)
        /\ seq' = [seq EXCEPT !.susp = <<[method |-> method, path |-> Len(reqs) + 1,
                                          body |-> body, blen |-> blen,
                                          expect |-> expect100, buf |-> r.val]>>,
                              !.mid = 0]
        /\ ret' = [op |-> "send_begin", arg |-> blen, exc |-> "", val |-> <<>>,
                   parts |-> <<>>]
        /\ pre' = Snapshot
        /\ UNCHANGED <<snd, cid, live, reqs, srv, srv_sent, resps, got>>

\* the suspended send_request is resumed, the socket takes one byte of the
\* buffer, and _co_send yields again
send_part ==
    /\ seq.susp # <<>>
    /\ Len(seq.susp[1].buf) > 1
    /\ SetConn([Conn EXCEPT !.sout = Append(@, Head(seq.susp[1].buf))])
    /\ seq' = [seq EXCEPT !.susp[1].buf = Tail(@)]
    /\ ret' = [op |-> "send_part", arg |-> 1, exc |-> "", val |-> <<>>, parts |-> <<>>]
    /\ pre' = Snapshot
    /\ UNCHANGED <<snd, cid, live, reqs, srv, srv_sent, resps, got>>

\* the suspended send_request is resumed and runs to its end; the sequential
\* execution runs the whole send_request now
send_resume ==
    /\ seq.susp # <<>>
    /\ \E x \in {seq.susp[1]} :
        \E r \in {send_request_resume(Conn, x.buf, x.method, x.path, x.body, x.blen,
                                      x.expect)},
           q \in {co_send_request(Shadow, x.method, x.path, x.body, x.blen, x.expect)} :
            /\ SetConn(r.c)
            /\ seq' = [seq EXCEPT !.c = q.c, !.susp = <<>>, !.same = @ /\ Agree(r, q)]
            /\ ret' = Result("send_request", x.blen, r, <<>>)
            /\ pre' = Snapshot
            /\ reqs' = IF r.exc # "" THEN reqs
                       ELSE Append(reqs, [method |-> x.method, path |-> x.path,
                                          body |-> x.body, blen |-> x.blen,
                                          expect |-> x.expect, sent |-> 0,
                                          complete |-> x.body # "following"])
            /\ UNCHANGED <<snd, cid, live, srv, srv_sent, resps, got>>

\* read_response in both executions
read_response_both ==
    \E r \in {co_read_response(Conn)}, q \in {co_read_response(Shadow)} :
        /\ r.exc # "BLOCK"
        /\ SetConn(r.c)
        /\ seq' = [seq EXCEPT !.c = q.c, !.same = @ /\ Agree(r, q), !.mid = Interleaved(r)]
        /\ ret' = Result("read_response", 0, [r EXCEPT !.val = <<>>], <<>>)
        /\ pre' = Snapshot
        /\ resps' = IF r.exc # "" THEN resps
                    ELSE Append(resps, [method |-> pending_requests[1][1],
                                        path |-> pending_requests[1][2],
                                        status |-> r.val[1], reason |-> r.val[2],
                                        length |-> r.val[3]])
        /\ got' = IF r.exc = "" /\ r.val[1] # 100 THEN <<>> ELSE got
        /\ UNCHANGED <<snd, cid, live, reqs, srv, srv_sent>>

\* read(len_) in both executions
read_both(len_) ==
    \E r \in {co_read(Conn, len_)}, q \in {co_read(Shadow, len_)} :
        /\ r.exc # "BLOCK"
        /\ SetConn(r.c)
        /\ seq' = [seq EXCEPT !.c = q.c, !.same = @ /\ Agree(r, q), !.mid = Interleaved(r)]
        /\ ret' = Result("read", len_, r, <<>>)
        /\ pre' = Snapshot
        /\ got' = IF r.exc = "" THEN got \o r.val ELSE got
        /\ UNCHANGED <<snd, cid, live, reqs, srv, srv_sent, resps>>

\* write(buf) of n bytes in both executions, while no send_request is suspended
write_both(n) ==
    \E r \in {co_write(Conn, n)}, q \in {co_write(Shadow, n)} :
        /\ seq.susp = <<>>
        /\ SetConn(r.c)
        /\ seq' = [seq EXCEPT !.c = q.c, !.same = @ /\ Agree(r, q)]
        /\ ret' = Result("write", n, r, <<>>)
        /\ pre' = Snapshot
        /\ reqs' = IF r.exc # "" THEN reqs
                   ELSE [reqs EXCEPT ![out_remaining[2]].sent = @ + n,
                                     ![out_remaining[2]].complete =
                                         (reqs[out_remaining[2]].sent + n
                                          = reqs[out_remaining[2]].blen)]
        /\ UNCHANGED <<snd, cid, live, srv, srv_sent, resps, got>>

\* an operation of _Buffer on the read buffer; parts = the unread bytes before
BufferOp(op, r) ==
    /\ SetConn(r.c)
    /\ ret' = [op |-> op, arg |-> 0, exc |-> r.exc, val |-> r.val,
               parts |-> <<Slice(rbuf.d, rbuf.b, rbuf.e)>>]
    /\ pre' = Snapshot
    /\ UNCHANGED <<snd, cid, live, seq, reqs, srv, srv_sent, resps, got>>

rbuf_clear == BufferOp("clear", Ok(clear(Conn), <<>>))

rbuf_compact == BufferOp("compact", Ok(compact(Conn), <<>>))

rbuf_exhaust == BufferOp("exhaust", exhaust(Conn))

\* _try_fill_buffer, once
fill == sock /\ BufferOp("fill", try_fill_buffer(Conn))

\* ------------------------------------------------------------ calls in time
\* eval_coroutine drives one call at a time: the generator runs until it
\* returns or raises, and at every PollRequest the driver waits for the
\* descriptor and resumes it. live.op is the call in progress, live.wire the
\* bytes the server has written and the network has not delivered yet, and
\* live.ready says that what has arrived lets the generator run to its end.
LiveRun(c, op, arg) ==
    CASE op = "send_request" -> co_send_request(c, arg[1], Len(reqs) + 1, arg[2], arg[3], FALSE)
      [] op = "write" -> co_write(c, arg)
      [] op = "read_response" -> co_read_response(c)
      [] op = "read" -> co_read(c, arg)
      [] op = "readinto" -> co_readinto(c, arg)
      [] op = "readall" -> co_readall(c)
      [] op = "discard" -> co_discard(c)

\* the generator has consumed what the socket holds and waits in a PollRequest
Suspended == live.op # "none" /\ ~live.ready

\* the caller starts a call the state of the connection allows, and stops at
\* the first exception
call(op, arg) ==
    /\ live.op = "none"
    /\ ret.exc = ""
    /\ CASE op = "send_request" -> Len(reqs) < MaxLive /\ out_remaining = NoTuple
         [] op = "write" -> out_remaining # NoTuple /\ arg <= out_remaining[3]
         [] op = "read_response" ->
                in_remaining = None /\ out_remaining = NoTuple /\ response_pending(Conn)
         [] OTHER -> in_remaining # None
    /\ live' = [live EXCEPT !.op = op, !.arg = arg, !.polls = 0,
                             !.ready = LiveRun(Conn, op, arg).exc # "BLOCK"]
    /\ UNCHANGED <<sock, rbuf, sock_in, sock_out, pending_requests, out_remaining,
                   in_remaining, encoding, reqs, srv, srv_sent, ret, pre, resps, got,
                   snd, blocking, cid, seq>>

\* the generator yields a PollRequest: the socket has nothing for it
suspend ==
    /\ Suspended
    /\ live.polls = 0
    /\ live' = [live EXCEPT !.polls = 1]
    /\ UNCHANGED <<sock, rbuf, sock_in, sock_out, pending_requests, out_remaining,
                   in_remaining, encoding, reqs, srv, srv_sent, ret, pre, resps, got,
                   snd, blocking, cid, seq>>

\* the generator runs to its end (resumed at each PollRequest the arrivals so
\* far have satisfied): StopIteration carries the value
finish ==
    /\ live.op # "none"
    /\ live.ready
    /\ \E r \in {LiveRun(Conn, live.op, live.arg)} :
           /\ SetConn(r.c)
           /\ ret' = Result(live.op, IF live.op = "send_request" THEN live.arg[3] ELSE live.arg,
                            IF live.op = "read_response" THEN [r EXCEPT !.val = <<>>] ELSE r,
                            IF live.op \in {"readall", "discard"} THEN r.parts ELSE <<>>)
           /\ pre' = Snapshot
           /\ reqs' = IF r.exc # "" THEN reqs
                      ELSE IF live.op = "send_request"
                      THEN Append(reqs, [method |-> live.arg[1], path |-> Len(reqs) + 1,
                                         body |-> live.arg[2], blen |-> live.arg[3],
                                         expect |-> FALSE, sent |-> 0,
                                         complete |-> live.arg[2] # "following"])
                      ELSE IF live.op = "write"
                      THEN [reqs EXCEPT ![out_remaining[2]].sent = @ + live.arg,
                                        ![out_remaining[2]].complete =
                                            (reqs[out_remaining[2]].sent + live.arg
                                             = reqs[out_remaining[2]].blen)]
                      ELSE reqs
           /\ resps' = IF r.exc = "" /\ live.op = "read_response"
                       THEN Append(resps, [method |-> pending_requests[1][1],
                                           path |-> pending_requests[1][2],
                                           status |-> r.val[1], reason |-> r.val[2],
                                           length |-> r.val[3]])
                       ELSE resps
           /\ got' = IF r.exc # "" THEN got
                     ELSE IF live.op = "read_response" THEN <<>>
                     ELSE IF live.op \in {"read", "readinto"} THEN got \o r.val
                     ELSE IF live.op \in {"readall", "discard"} THEN got \o Concat(r.parts)
                     ELSE got
    /\ live' = [live EXCEPT !.op = "none", !.polls = 0, !.ready = FALSE]
    /\ UNCHANGED <<snd, cid, seq, srv, srv_sent>>

\* connect() on a connection without a socket (as send_request calls it); the
\* server of a new connection answers none of the old requests
open(proxy, tls, env) ==
    \E r \in {connect_via(Conn, proxy, tls, env)} :
        /\ ~sock
        /\ r.exc # "BLOCK"
        /\ SetConn(r.c)
        /\ ret' = Result("connect", 0, r, <<>>)
        /\ pre' = Snapshot
        /\ srv' = [idx |-> Len(reqs) + 1, cont |-> FALSE]
        /\ UNCHANGED <<snd, cid, live, seq, reqs, srv_sent, resps, got>>

\* ------------------------------------------------------------ _co_send in steps
\* the i-th buffer handed to the send path, of n bytes
SendBuf(i, n) == [j \in 1..n |-> DATA + 10 * i + j]

\* drops one byte more than the socket took
send_advance_skip(buf, len_) == SubSeq(buf, len_ + 2, Len(buf))

\* buf = buf[len_:]
send_advance(buf, len_) == SubSeq(buf, len_ + 1, Len(buf))

\* _co_send(buf) is called on a connected socket and runs up to its loop
submit(n) ==
    /\ snd.pc = "idle"
    /\ Len(snd.subs) < MaxSends
    /\ sock' = TRUE
    /\ snd' = [snd EXCEPT !.pc = "loop", !.buf = SendBuf(Len(snd.subs) + 1, n),
                          !.subs = Append(@, SendBuf(Len(snd.subs) + 1, n)),
                          !.polls = 0, !.parts = 0, !.last = "submit",
                          !.before = Len(sock_out)]
    /\ UNCHANGED <<cid, seq, live, blocking, rbuf, sock_in, sock_out, pending_requests, out_remaining,
                   in_remaining, encoding, reqs, srv, srv_sent, ret, pre, resps, got>>

\* select() finds the socket not writable: yield PollNeeded(fd, EPOLLOUT)
send_poll ==
    /\ snd.pc = "loop"
    /\ snd.polls < MaxPolls
    /\ snd' = [snd EXCEPT !.polls = @ + 1, !.last = "poll", !.before = Len(sock_out)]
    /\ UNCHANGED <<cid, seq, live, blocking, sock, rbuf, sock_in, sock_out, pending_requests, out_remaining,
                   in_remaining, encoding, reqs, srv, srv_sent, ret, pre, resps, got>>

\* sock.send(buf) takes len_ bytes; the coroutine returns when none are left
send_some(len_) ==
    /\ snd.pc = "loop"
    /\ len_ \in (IF snd.buf = <<>> THEN {0} ELSE 1..Len(snd.buf))
    /\ sock_out' = sock_out \o SubSeq(snd.buf, 1, len_)
    /\ snd' = [snd EXCEPT !.buf = send_advance(snd.buf, len_),
                          !.pc = IF send_advance(snd.buf, len_) = <<>> THEN "idle"
                                 ELSE "loop",
                          !.parts = @ + 1, !.last = "send", !.before = Len(sock_out)]
    /\ UNCHANGED <<cid, seq, live, blocking, sock, rbuf, sock_in, pending_requests, out_remaining,
                   in_remaining, encoding, reqs, srv, srv_sent, ret, pre, resps, got>>

\* sock.send(buf) raises InterruptedError: an OSError whose errno is not
\* EINVAL, which the handler of OSError raises again
send_interrupted ==
    /\ snd.pc = "loop"
    /\ snd' = [snd EXCEPT !.pc = "failed", !.exc = "InterruptedError",
                          !.last = "interrupt", !.before = Len(sock_out)]
    /\ UNCHANGED <<cid, seq, live, blocking, sock, rbuf, sock_in, sock_out, pending_requests, out_remaining,
                   in_remaining, encoding, reqs, srv, srv_sent, ret, pre, resps, got>>

\* ------------------------------------------------------------ the dict's user
\* cid[key] = val
cid_set(key, val) ==
    /\ Len(cid.log) < MaxOps
    /\ cid' = [store |-> setitem(cid.store, key, val),
               log |-> Append(cid.log, [op |-> "set", key |-> key, val |-> val]),
               ret |-> [op |-> "set", key |-> key, exc |-> ""]]
    /\ UNCHANGED <<sock, rbuf, sock_in, sock_out, pending_requests, out_remaining,
                   in_remaining, encoding, reqs, srv, srv_sent, ret, pre, resps, got,
                   snd, blocking, seq, live>>

\* del cid[key]
cid_del(key) ==
    /\ Len(cid.log) < MaxOps
    /\ \E r \in {delitem(cid.store, key)} :
           cid' = [store |-> r.store,
                   log |-> IF r.exc # "" THEN cid.log
                           ELSE Append(cid.log, [op |-> "del", key |-> key, val |-> 0]),
                   ret |-> [op |-> "del", key |-> key, exc |-> r.exc]]
    /\ UNCHANGED <<sock, rbuf, sock_in, sock_out, pending_requests, out_remaining,
                   in_remaining, encoding, reqs, srv, srv_sent, ret, pre, resps, got,
                   snd, blocking, seq, live>>

\* ------------------------------------------------------------ the server
StatusLine(status, tag) == <<HTTPVER, STSym(status, tag), CR, LF>>
HeaderBlock(te, cl) == <<HDR, te, cl, CR, LF, CR, LF>>
Payload(tag, from, n) == [i \in 1..n |-> BodyByte(tag, from + i)]

RECURSIVE SumSeq(_)
SumSeq(s) == IF s = <<>> THEN 0 ELSE Head(s) + SumSeq(Tail(s))

RECURSIVE Chunks(_, _, _, _)
Chunks(tag, from, sizes, ext) ==
    IF sizes = <<>> THEN <<Digit(0), CR, LF, CR, LF>>
    ELSE <<Digit(Head(sizes))>> \o (IF ext THEN <<SEMI, EXT>> ELSE <<>>) \o CRLF
         \o Payload(tag, from, Head(sizes)) \o CRLF
         \o Chunks(tag, from + Head(sizes), Tail(sizes), ext)

\* a response: [kind, status, len, sizes, ext]
IdResp(status, n) == [kind |-> "id", status |-> status, len |-> n, sizes |-> <<>>, ext |-> FALSE]
ChunkedResp(sizes, ext) ==
    [kind |-> "chunked", status |-> 200, len |-> SumSeq(sizes), sizes |-> sizes, ext |-> ext]
EmptyResp(status) ==
    [kind |-> "empty", status |-> status, len |-> 0, sizes |-> <<>>, ext |-> FALSE]
\* a response with these header fields, followed by n bytes of body
HdrResp(status, te, cl, n) ==
    [kind |-> "hdr", status |-> status, len |-> n, sizes |-> IF n > 0 THEN <<n>> ELSE <<>>,
     ext |-> FALSE, te |-> te, cl |-> cl]

\* the Transfer-Encoding and Content-Length fields of a response
KindTE(k) ==
    IF k.kind = "hdr" THEN k.te ELSE IF k.kind = "chunked" THEN TE_CHUNKED ELSE TE_NONE
KindCL(k) ==
    IF k.kind = "hdr" THEN k.cl ELSE IF k.kind = "id" THEN CLSym(k.len) ELSE CL_NONE

\* the body the server declares; a HEAD request or a 204 gets none
RespBody(method, tag, k) ==
    IF method = "HEAD" \/ k.kind = "empty" \/ k.status \in {204, 304} THEN <<>>
    ELSE Payload(tag, 0, k.len)

\* what follows the header block on the wire
RespTail(method, tag, k) ==
    IF method = "HEAD" \/ k.kind = "empty" \/ k.status \in {204, 304} THEN <<>>
    ELSE IF KindTE(k) = TE_CHUNKED THEN Chunks(tag, 0, k.sizes, k.ext)
    ELSE Payload(tag, 0, k.len)

RespBytes(method, tag, k) ==
    StatusLine(k.status, tag)
    \o (IF k.kind = "empty" THEN CRLF
        ELSE IF k.kind = "chunked" THEN HeaderBlock(TE_CHUNKED, CL_NONE)
        ELSE IF k.kind = "hdr" THEN HeaderBlock(k.te, k.cl)
        ELSE HeaderBlock(TE_NONE, CLSym(k.len)))
    \o RespTail(method, tag, k)

\* GAP before the bytes at the positions P
RECURSIVE InsertGaps(_, _, _)
InsertGaps(bytes, P, i) ==
    IF i > Len(bytes) THEN <<>>
    ELSE (IF i \in P THEN <<GAP>> ELSE <<>>) \o <<bytes[i]>> \o InsertGaps(bytes, P, i + 1)

\* at most max positions among lo..n
RECURSIVE GapSets(_, _, _)
GapSets(lo, n, max) ==
    IF max = 0 THEN {{}}
    ELSE GapSets(lo, n, max - 1)
         \cup {P \cup {i} : P \in GapSets(lo, n, max - 1), i \in lo..n}

Complete(r) == r.body # "following" \/ r.sent = r.blen

\* the final response to the next request: to a complete request, or (refusing
\* the body) to the headers of an Expect: 100-continue request
ServerFinal(k, maxgaps) ==
    /\ srv.idx <= Len(reqs)
    /\ LET r == reqs[srv.idx]
           bytes == RespBytes(r.method, srv.idx, k)
       IN  /\ IF r.expect /\ ~srv.cont THEN k.status = 413
              ELSE Complete(r) /\ k.status # 413
           /\ \E P \in GapSets(Len(bytes) - Len(RespTail(r.method, srv.idx, k)) + 1,
                                Len(bytes), maxgaps) :
                  sock_in' = sock_in \o InsertGaps(bytes, P, 1)
           /\ srv_sent' = Append(srv_sent, [kind |-> k.kind, status |-> k.status,
                                            body |-> RespBody(r.method, srv.idx, k),
                                            te |-> KindTE(k), cl |-> KindCL(k)])
    /\ srv' = [idx |-> srv.idx + 1, cont |-> FALSE]
    /\ UNCHANGED <<snd, cid, live, seq, sock, blocking, rbuf, sock_out, pending_requests, out_remaining,
                   in_remaining, encoding, reqs, ret, pre, resps, got>>

\* a provisional response (status 100 to Expect: 100-continue, or another 1xx)
ServerProvisional(status) ==
    /\ srv.idx <= Len(reqs)
    /\ LET r == reqs[srv.idx]
       IN  IF status = 100 THEN r.expect /\ ~srv.cont
           ELSE ~srv.cont /\ Complete(r) /\ ~r.expect
    /\ sock_in' = sock_in \o StatusLine(status, srv.idx) \o CRLF
    /\ srv' = [srv EXCEPT !.cont = TRUE]
    /\ UNCHANGED <<snd, cid, live, seq, sock, blocking, rbuf, sock_out, pending_requests, out_remaining,
                   in_remaining, encoding, reqs, srv_sent, ret, pre, resps, got>>

\* a provisional response at any moment before the final one: a 100 also to a
\* request that does not expect it or was told to continue already, another
\* 1xx also to a request that awaits its 100
ServerInfo(status) ==
    /\ srv.idx <= Len(reqs)
    /\ Len(sock_in) <= MaxUnread
    /\ reqs[srv.idx].expect \/ Complete(reqs[srv.idx])
    /\ sock_in' = sock_in \o StatusLine(status, srv.idx) \o CRLF
    /\ srv' = [srv EXCEPT !.cont = @ \/ (status = 100 /\ reqs[srv.idx].expect)]
    /\ UNCHANGED <<snd, cid, live, seq, sock, blocking, rbuf, sock_out, pending_requests, out_remaining,
                   in_remaining, encoding, reqs, srv_sent, ret, pre, resps, got>>

\* the server writes its response to the next complete request
respond(k) ==
    /\ srv.idx <= Len(reqs)
    /\ Complete(reqs[srv.idx])
    /\ live.wire = <<>>
    /\ live' = [live EXCEPT !.wire = RespBytes(reqs[srv.idx].method, srv.idx, k)]
    /\ srv_sent' = Append(srv_sent, [kind |-> k.kind, status |-> k.status,
                                     body |-> RespBody(reqs[srv.idx].method, srv.idx, k),
                                     te |-> KindTE(k), cl |-> KindCL(k)])
    /\ srv' = [idx |-> srv.idx + 1, cont |-> FALSE]
    /\ UNCHANGED <<sock, rbuf, sock_in, sock_out, pending_requests, out_remaining,
                   in_remaining, encoding, reqs, ret, pre, resps, got, snd, blocking,
                   cid, seq>>

\* the next n bytes arrive during a call (what arrives between two calls is
\* in the socket when the next one starts); a generator that waits has seen
\* recv fail once (BlockingIOError) before them
Pieces == {n \in {1, Len(live.wire)} : 1 <= n /\ n <= Len(live.wire)}

arrival(n) == (IF Suspended THEN <<GAP>> ELSE <<>>) \o SubSeq(live.wire, 1, n)

deliver(n) ==
    /\ n \in Pieces
    /\ live.op # "none"
    /\ sock_in' = sock_in \o arrival(n)
    /\ live' = [live EXCEPT
                   !.wire = SubSeq(live.wire, n + 1, Len(live.wire)),
                   !.ready = live.op # "none"
                             /\ LiveRun([Conn EXCEPT !.sin = sock_in \o arrival(n)],
                                        live.op, live.arg).exc # "BLOCK"]
    /\ UNCHANGED <<sock, rbuf, sock_out, pending_requests, out_remaining, in_remaining,
                   encoding, reqs, srv, srv_sent, ret, pre, resps, got, snd, blocking,
                   cid, seq>>

\* ------------------------------------------------------------ specifications
Lens == 0..MaxLen

\* the final responses of the protocol-level specification
Kinds ==
    {IdResp(200, n) : n \in 0..1} \cup {EmptyResp(204), IdResp(413, 0)}

\* requests of every kind, pipelined, with the 100-continue choreography
Next ==
    \/ send_request("GET", "none", 0, FALSE)
    \/ \E n \in 1..MaxLen : send_request("PUT", "inline", n, FALSE)
    \/ \E n \in Lens, x \in BOOLEAN : send_request("PUT", "following", n, x)
    \/ \E n \in Lens : write(n)
    \/ read_response
    \/ \E n \in 1..MaxLen : read(n)
    \/ \E n \in 1..MaxLen : readinto(n)
    \/ readall
    \/ discard
    \/ \E k \in Kinds : ServerFinal(k, 0)
    \/ ServerProvisional(100)

Spec == Init /\ [][Next]_vars

\* the final responses of the body-level specification
BodyKinds ==
    {IdResp(200, n) : n \in 0..MaxBody}
    \cup {ChunkedResp(<<1>>, TRUE), ChunkedResp(<<1, 1>>, FALSE)}

ReadLens == 1..(MaxBody + 1)

\* bodyless requests, pipelined; response bodies read at every granularity,
\* arriving in pieces
NextBody ==
    \/ send_request("GET", "none", 0, FALSE)
    \/ read_response
    \/ \E n \in ReadLens : read(n)
    \/ \E n \in ReadLens : readinto(n)
    \/ readall
    \/ discard
    \/ \E k \in BodyKinds : ServerFinal(k, MaxGaps)

SpecBody == Init /\ [][NextBody]_vars

\* the send path, step by step, driven by one caller
NextSend ==
    \/ \E n \in 0..MaxBuf : submit(n)
    \/ send_poll
    \/ \E n \in 0..MaxBuf : send_some(n)
    \/ send_interrupted

SpecSend == Init /\ [][NextSend]_vars

\* the protocol-level operations, and disconnect at any moment
NextConn == Next \/ close

SpecConn == Init /\ [][NextConn]_vars

\* the final responses of the header-level specification: every combination
\* of status, Transfer-Encoding and Content-Length, with the body that fits
HdrKinds ==
    {HdrResp(st, te, cl, IF te # TE_CHUNKED /\ cl # CL_NONE THEN CLVal(cl) ELSE 1) :
        st \in {200, 204, 304},
        te \in {TE_NONE, TE_CHUNKED, TE_IDENTITY, TE_OTHER},
        cl \in {CL_NONE, CLSym(0), CLSym(1)}}

\* GET and HEAD requests, pipelined; responses with every header combination
NextHdr ==
    \/ send_request("GET", "none", 0, FALSE)
    \/ send_request("HEAD", "none", 0, FALSE)
    \/ read_response
    \/ \E n \in 1..MaxLen : read(n)
    \/ \E n \in 1..MaxLen : readinto(n)
    \/ readall
    \/ discard
    \/ \E k \in HdrKinds : ServerFinal(k, 0)

SpecHdr == Init /\ [][NextHdr]_vars

\* requests whose body follows, of every declared length, written in pieces
\* of every length, with and without 100-continue
NextWrite ==
    \/ \E n \in 0..MaxDecl, x \in BOOLEAN : send_request("PUT", "following", n, x)
    \/ \E n \in 0..(MaxDecl + 1) : write(n)
    \/ read_response
    \/ \E k \in {EmptyResp(204), IdResp(413, 0)} : ServerFinal(k, 0)
    \/ ServerProvisional(100)

SpecWrite == Init /\ [][NextWrite]_vars

\* the byte streams: CR, LF and another byte, in every order
Streams == UNION {[1..n -> {CR, LF, EXT}] : n \in 0..MaxStream}

\* a connected socket on which the server has sent the bytes of stream, in
\* the pieces that the GAPs at P make, the read buffer consumed up to k
InitStream(stream, P, k) ==
    /\ sock = TRUE
    /\ blocking = FALSE
    /\ rbuf = [d |-> Zeros(BUFFER_SIZE), b |-> k, e |-> k]
    /\ sock_in = InsertGaps(stream, P, 1)
    /\ sock_out = <<>>
    /\ pending_requests = <<>>
    /\ out_remaining = NoTuple
    /\ in_remaining = None
    /\ encoding = "None"
    /\ reqs = <<>>
    /\ srv = [idx |-> 1, cont |-> FALSE]
    /\ srv_sent = <<[kind |-> "raw", status |-> 0, body |-> stream, te |-> TE_NONE,
                     cl |-> CL_NONE]>>
    /\ ret = [op |-> "init", arg |-> 0, exc |-> "", val |-> <<>>, parts |-> <<>>]
    /\ pre = Snapshot
    /\ resps = <<>>
    /\ got = <<>>
    /\ snd = [pc |-> "idle", buf |-> <<>>, subs |-> <<>>, polls |-> 0, parts |-> 0,
              last |-> "none", before |-> 0, exc |-> ""]
    /\ cid = [store |-> <<>>, log |-> <<>>, ret |-> [op |-> "init", key |-> <<>>, exc |-> ""]]
    /\ seq = [c |-> Conn, susp |-> <<>>, same |-> TRUE, mid |-> 0]
    /\ live = [op |-> "none", arg |-> 0, polls |-> 0, wire |-> <<>>, ready |-> FALSE]

\* the delimiter-bounded read on every stream, split at every place, from
\* every position of the begin cursor, with the limits its callers pass
InitStr ==
    \E stream \in Streams, k \in 0..BUFFER_SIZE :
        \E P \in GapSets(1, Len(stream), MaxGaps) : InitStream(stream, P, k)

NextStr ==
    \/ readstr(CRLF, MAX_LINE_SIZE)
    \/ readstr(CRLFCRLF, MAX_HEADER_SIZE)

SpecStr == InitStr /\ [][NextStr]_vars

\* every operation so far has returned a value
Succeeded == ret.exc = ""

\* one driver runs every operation to its end and stops at the first that
\* fails
NextSole ==
    \/ Succeeded /\ send_request("GET", "none", 0, FALSE)
    \/ Succeeded /\ \E n \in 1..MaxLen : send_request("PUT", "inline", n, FALSE)
    \/ Succeeded /\ \E n \in Lens, x \in BOOLEAN : send_request("PUT", "following", n, x)
    \/ Succeeded /\ \E n \in Lens : write(n)
    \/ Succeeded /\ read_response
    \/ Succeeded /\ \E n \in 1..MaxLen : read(n)
    \/ Succeeded /\ \E n \in 1..MaxLen : readinto(n)
    \/ Succeeded /\ readall
    \/ Succeeded /\ discard
    \/ Succeeded /\ close
    \/ \E k \in Kinds : ServerFinal(k, 0)
    \/ ServerProvisional(100)

SpecSole == Init /\ [][NextSole]_vars

\* one driver that suspends a send_request at its first PollNeeded, reads the
\* responses to the requests before it, and resumes it
NextInter ==
    \/ send_begin("GET", "none", 0, FALSE)
    \/ send_begin("PUT", "inline", 1, FALSE)
    \/ \E n \in Lens, x \in BOOLEAN : send_begin("PUT", "following", n, x)
    \/ send_part
    \/ send_resume
    \/ read_response_both
    \/ \E n \in 1..MaxLen : read_both(n)
    \/ \E n \in Lens : write_both(n)
    \/ \E k \in Kinds : ServerFinal(k, 0)
    \/ ServerProvisional(100)

SpecInter == Init /\ [][NextInter]_vars

\* the begin cursor is in the buffer
InBuffer == rbuf.b >= 0

\* a response that declares the length -5
NegativeLength == HdrResp(200, TE_NONE, CLSym(0 - 5), 0)

BufKinds ==
    {IdResp(200, n) : n \in 0..MaxBody} \cup {ChunkedResp(<<1>>, FALSE), NegativeLength}

\* pipelined requests, responses of every framing arriving in pieces, body
\* reads of every length, and the operations of the buffer between responses
NextBuf ==
    \/ InBuffer /\ send_request("GET", "none", 0, FALSE)
    \/ InBuffer /\ read_response
    \/ InBuffer /\ \E n \in ReadLens : read(n)
    \/ InBuffer /\ \E n \in ReadLens : readinto(n)
    \/ InBuffer /\ in_remaining = None /\ rbuf_clear
    \/ InBuffer /\ in_remaining = None /\ rbuf_compact
    \/ InBuffer /\ in_remaining = None /\ rbuf_exhaust
    \/ InBuffer /\ in_remaining = None /\ fill
    \/ \E k \in BufKinds : ServerFinal(k, MaxGaps)

SpecBuf == Init /\ [][NextBuf]_vars

\* the responses a well-formed peer delivers, byte by byte or at once
LiveKinds ==
    {IdResp(200, n) : n \in 0..MaxBody}
    \cup {EmptyResp(204), ChunkedResp(<<1>>, FALSE), ChunkedResp(<<1, 1>>, FALSE)}

\* one call at a time, each started in a state that allows it
NextLive ==
    \/ call("send_request", <<"GET", "none", 0>>)
    \/ call("send_request", <<"PUT", "following", 1>>)
    \/ \E n \in 0..1 : call("write", n)
    \/ call("read_response", 0)
    \/ \E n \in ReadLens : call("read", n)
    \/ \E n \in ReadLens : call("readinto", n)
    \/ call("readall", 0)
    \/ call("discard", 0)
    \/ suspend
    \/ finish
    \/ \E k \in LiveKinds : respond(k)
    \/ \E n \in Pieces : deliver(n)

\* eval_coroutine resumes the generator once select() reports the descriptor
\* ready, and the generator that has what it needs runs to its end (the step
\* of finish); the peer answers every request; the network delivers every
\* byte (the step of deliver)
resumed == live.op # "none" /\ live.ready
           /\ live' = [live EXCEPT !.op = "none", !.polls = 0, !.ready = FALSE]
delivered == live.op # "none" /\ \E n \in Pieces : sock_in' = sock_in \o arrival(n)

Fairness ==
    /\ WF_live(resumed)
    /\ WF_vars(\E k \in LiveKinds : respond(k))
    /\ WF_sock_in(delivered)

SpecLive == Init /\ [][NextLive]_vars /\ Fairness

\* no operation has failed: after an exception other than StateError the
\* connection is to be reset, and the caller uses it no more
Healthy == ret.exc \in {"", "StateError"}

\* the body-level operations on a connection that is given up once a read
\* has failed
NextChunk ==
    \/ Healthy /\ send_request("GET", "none", 0, FALSE)
    \/ Healthy /\ read_response
    \/ Healthy /\ \E n \in ReadLens : read(n)
    \/ Healthy /\ \E n \in ReadLens : readinto(n)
    \/ Healthy /\ readall
    \/ Healthy /\ discard
    \/ \E k \in BodyKinds : ServerFinal(k, MaxGaps)

SpecChunk == Init /\ [][NextChunk]_vars

\* the provisional statuses the server sends
Infos == {100, 102}

\* requests with and without Expect: 100-continue, pipelined, to a server that
\* sends provisional responses of every kind before each final response
NextInfo ==
    \/ send_request("GET", "none", 0, FALSE)
    \/ \E n \in Lens : send_request("PUT", "following", n, TRUE)
    \/ \E n \in Lens : write(n)
    \/ read_response
    \/ \E n \in 1..MaxLen : read(n)
    \/ \E k \in Kinds : ServerFinal(k, 0)
    \/ \E st \in Infos : ServerInfo(st)

SpecInfo == Init /\ [][NextInfo]_vars

\* what the network does to a connect(): all goes well, or the connection is
\* refused, or the proxy answers 407 or no HTTP at all, or the TLS handshake
\* fails, or the certificate names another host
Envs ==
    LET ok == [refused |-> FALSE, answer |-> StatusLine(200, 0) \o CRLF,
               handshake |-> TRUE, hostname |-> TRUE]
    IN  {ok, [ok EXCEPT !.refused = TRUE],
         [ok EXCEPT !.answer = StatusLine(407, 0) \o CRLF],
         [ok EXCEPT !.answer = <<EXT, CR, LF>>],
         [ok EXCEPT !.handshake = FALSE], [ok EXCEPT !.hostname = FALSE]}

\* bodyless requests and their responses, with connect() and disconnect() at
\* any moment
NextConnect ==
    \/ send_request("GET", "none", 0, FALSE)
    \/ read_response
    \/ \E n \in 1..MaxLen : read(n)
    \/ ServerFinal(IdResp(200, 1), 0)
    \/ close
    \/ \E proxy \in BOOLEAN, tls \in BOOLEAN, env \in Envs : open(proxy, tls, env)

SpecConnect == Init /\ [][NextConnect]_vars

\* the keys "AB", "aB", "Ab", "ab", "C", "c" and "x-", and the values written
Keys == {<<65, 66>>, <<97, 66>>, <<65, 98>>, <<97, 98>>, <<67>>, <<99>>, <<120, 45>>}
Vals == {1, 2}

\* a CaseInsensitiveDict written and deleted under every casing
NextDict ==
    \/ \E key \in Keys, val \in Vals : cid_set(key, val)
    \/ \E key \in Keys : cid_del(key)

SpecDict == Init /\ [][NextDict]_vars

\* ------------------------------------------------------------ observations
\* the final (non-100) response descriptors read so far
Finals == SelectSeq(resps, LAMBDA d : d.status # 100)

\* the final response whose body is being read, or was read last
Cur == Len(Finals)

\* the responses read to the end of their body
Completed == Cur - (IF in_remaining # None THEN 1 ELSE 0)

\* read_response has returned status 100 for request k
Continued(k) == \E i \in 1..Len(resps) : resps[i].status = 100 /\ resps[i].path = k

\* _out_remaining is (method, path, WAITING_FOR_100c)
Waiting(outrem) == outrem # NoTuple /\ outrem[3] = WAITING_FOR_100c

\* the last operation was a body read that ended the body
TerminalRead ==
    /\ ret.op \in {"read", "readinto", "readall", "discard"}
    /\ ret.exc = ""
    /\ pre.inrem # None
    /\ in_remaining = None

\* the last operation was a read or readinto that returned empty / zero
EmptyReturn == ret.op \in {"read", "readinto"} /\ ret.exc = "" /\ ret.val = <<>>

\* the open response was sent with this framing
CurKind(kind) == Cur >= 1 /\ Cur <= Len(srv_sent) /\ srv_sent[Cur].kind = kind

IsPrefix(s, t) == Len(s) <= Len(t) /\ SubSeq(t, 1, Len(s)) = s

\* ------------------------------------------------------------ C1
\* C1: the k-th final response descriptor returned by read_response carries
\* the method and path of the k-th request sent, and the status and reason of
\* the k-th final response the server sent.
C1_FIFO ==
    \A k \in 1..Len(Finals) :
        /\ k <= Len(reqs)
        /\ k <= Len(srv_sent)
        /\ Finals[k].method = reqs[k].method
        /\ Finals[k].path = reqs[k].path
        /\ Finals[k].reason = k
        /\ Finals[k].status = srv_sent[k].status

\* two final responses were read, the first to an Expect: 100-continue request
\* whose body was written, the second to a request of another kind
C1_Witness ==
    /\ Len(Finals) >= 2
    /\ reqs[1].expect
    /\ reqs[1].sent >= 1
    /\ reqs[2].body # "following"

\* ------------------------------------------------------------ C2
\* C2: for an identity-encoded response, when a read or readinto (of any
\* size n >= 1) returns empty / zero, the pieces returned for that response
\* are together exactly the body bytes the server sent, in order.
C2_IdentityBody ==
    (CurKind("id") /\ EmptyReturn) => got = srv_sent[Cur].body

\* ------------------------------------------------------------ C3
\* C3: readall returns exactly the concatenation of the pieces the underlying
\* reads returned: as long as their lengths together, no byte extra or missing.
C3_ReadAll ==
    (ret.op = "readall" /\ ret.exc = "") =>
        /\ Len(ret.val) = Len(Concat(ret.parts))
        /\ ret.val = Concat(ret.parts)

\* ------------------------------------------------------------ C4
\* C4: for a chunked response, what the body reads return is at every moment
\* a prefix of the concatenated chunk payloads, no body read fails on the
\* well-formed stream, and when a read returns empty / zero or readall /
\* discard returns, the payloads have been returned completely.
C4_ChunkedBody ==
    CurKind("chunked") =>
        /\ IsPrefix(got, srv_sent[Cur].body)
        /\ ret.op \in {"read", "readinto", "readall", "discard"}
               => ret.exc \in {"", "StateError"}
        /\ (EmptyReturn \/ TerminalRead) => got = srv_sent[Cur].body

\* ------------------------------------------------------------ C5
\* C5: a read(n), n >= 1, that returns empty has ended the body: while bytes
\* of the body are owed it returns at least one byte (or waits, or fails).
C5_EmptyOnlyAtEnd ==
    (ret.op = "read" /\ ret.arg >= 1 /\ ret.exc = "" /\ pre.inrem # None) =>
        /\ ret.val = <<>> => in_remaining = None
        /\ pre.inrem > 0 /\ pre.enc = IDENTITY_ENCODING => ret.val # <<>>

\* ------------------------------------------------------------ C6
\* C6: once every body byte of the open response was returned, the next read
\* or readinto returns empty / zero, removes the head of the queue and sets
\* _in_remaining to None; a body read without an open response fails with
\* StateError and leaves the queue alone.
C6_EmptyOnce ==
    /\ (ret.op \in {"read", "readinto"} /\ pre.inrem # None /\ ret.val = <<>>
            /\ Cur >= 1 /\ got = srv_sent[Cur].body) =>
           /\ ret.exc = ""
           /\ in_remaining = None
           /\ pending_requests = Tail(pre.pend)
    /\ (ret.op \in {"read", "readinto"} /\ pre.inrem = None) =>
           /\ ret.exc = "StateError"
           /\ pending_requests = pre.pend
           /\ in_remaining = None

\* ------------------------------------------------------------ C7
\* request k was handed over completely (or awaits its 100-continue) and its
\* response has not been read to the end
Outstanding(k) ==
    /\ k > Completed
    /\ reqs[k].complete \/ (reqs[k].expect /\ ~Continued(k))

C8_Continue ==
    /\ Waiting(out_remaining) => \A n \in 0..(MaxLen + 1) : co_write(Conn, n).exc = "StateError"
    /\ (ret.op = "write" /\ Waiting(pre.outrem)) => ret.exc = "StateError"
    /\ (ret.op = "read_response" /\ ret.exc = "" /\ resps[Len(resps)].status = 100) =>
           /\ resps[Len(resps)].length = 0
           /\ in_remaining = None
           /\ pending_requests = Tail(pre.pend)
           /\ out_remaining = <<resps[Len(resps)].method, resps[Len(resps)].path,
                                 reqs[resps[Len(resps)].path].blen>>
    /\ (ret.op = "write" /\ ret.exc = "" /\ reqs[pre.outrem[2]].expect
            /\ reqs[pre.outrem[2]].sent = reqs[pre.outrem[2]].blen) =>
           /\ out_remaining = NoTuple
           /\ pending_requests = Append(pre.pend, <<pre.outrem[1], pre.outrem[2], None>>)
    /\ \A i \in 1..(Len(resps) - 1) :
           resps[i].status = 100 =>
               /\ resps[i + 1].status # 100
               /\ resps[i + 1].path = resps[i].path
               /\ resps[i + 1].method = resps[i].method

\* a status 100 was read, the body written, and the final response read
C8_Witness ==
    /\ Len(resps) >= 2
    /\ resps[1].status = 100
    /\ resps[2].status = 200
    /\ reqs[1].blen >= 1
    /\ reqs[1].sent = reqs[1].blen

\* ------------------------------------------------------------ C9
\* C9: a read_response that returns a final status while the request waits
\* for 100-continue sets _out_remaining to None and leaves the queue as it
\* is: every write then fails with StateError and a new request can be sent;
\* no body byte of a request that was not continued is ever sent; the queue
\* holds each request at most once and none whose response was read to the
\* end, and a terminal body read removes exactly the head.
C9_Reject ==
    /\ (ret.op = "read_response" /\ ret.exc = "" /\ Head(pre.pend)[3] # None
            /\ resps[Len(resps)].status # 100) =>
           /\ Waiting(pre.outrem)
           /\ out_remaining = NoTuple
           /\ pending_requests = pre.pend
           /\ Head(pending_requests)[2] = resps[Len(resps)].path
           /\ \A n \in 0..(MaxLen + 1) : co_write(Conn, n).exc = "StateError"
           /\ co_send_request(Conn, "GET", Len(reqs) + 1, "none", 0, FALSE).exc = ""
    /\ \A k \in 1..Len(reqs) : (reqs[k].expect /\ ~Continued(k)) => reqs[k].sent = 0
    /\ \A i \in 1..Len(pending_requests) :
           /\ pending_requests[i][2] > Completed
           /\ i > 1 => pending_requests[i - 1][2] < pending_requests[i][2]
    /\ in_remaining # None =>
           /\ pending_requests # <<>>
           /\ Head(pending_requests)[2] = Finals[Cur].path
    /\ TerminalRead => pending_requests = Tail(pre.pend)

\* the final status 413 was read for a request waiting for 100-continue, the
\* terminal read of its body followed
C9_Witness ==
    /\ TerminalRead
    /\ Len(resps) >= 1
    /\ resps[Len(resps)].status = 413
    /\ reqs[resps[Len(resps)].path].expect
    /\ reqs[resps[Len(resps)].path].blen >= 1

\* ------------------------------------------------------------ C10
\* C10: write fails with StateError when _out_remaining is None or waits for
\* 100-continue, with ExcessBodyData when the buffer is longer than the rest
\* of the declared body; a failing write hands nothing to the socket and
\* leaves _out_remaining, _in_remaining and the queue as they were.
C10_WriteFails ==
    /\ \A n \in 0..(MaxLen + 1) :
           /\ (out_remaining = NoTuple \/ Waiting(out_remaining))
                  => co_write(Conn, n).exc = "StateError"
           /\ (out_remaining # NoTuple /\ ~Waiting(out_remaining) /\ n > out_remaining[3])
                  => co_write(Conn, n).exc = "ExcessBodyData"
           /\ co_write(Conn, n).exc # "" => co_write(Conn, n).c = Conn
    /\ (ret.op = "write" /\ ret.exc # "") =>
           /\ ret.exc \in {"StateError", "ExcessBodyData"}
           /\ Len(sock_out) = pre.nout
           /\ out_remaining = pre.outrem
           /\ in_remaining = pre.inrem
           /\ pending_requests = pre.pend

\* a write longer than the rest of the declared body has failed
C10_Witness ==
    /\ ret.op = "write"
    /\ ret.exc = "ExcessBodyData"
    /\ out_remaining # NoTuple
    /\ ret.arg > out_remaining[3]

\* ------------------------------------------------------------ C11
\* C11: read_response fails with StateError when the queue is empty and when
\* _in_remaining is not None; it then reads nothing from the socket or the
\* read buffer and leaves the queue, _out_remaining, _in_remaining and
\* _encoding as they were.
C11_ReadResponseFails ==
    /\ (pending_requests = <<>> \/ in_remaining # None) =>
           /\ co_read_response(Conn).exc = "StateError"
           /\ co_read_response(Conn).c = Conn
    /\ (ret.op = "read_response" /\ (pre.pend = <<>> \/ pre.inrem # None)) =>
           /\ ret.exc = "StateError"
           /\ pending_requests = pre.pend
           /\ out_remaining = pre.outrem
           /\ in_remaining = pre.inrem
           /\ encoding = pre.enc
           /\ Len(sock_in) >= pre.nin
           /\ rbuf.b = pre.b
           /\ rbuf.e = pre.e

\* read_response has failed while a body was open and the next response was
\* already there to be read
C11_Witness ==
    /\ ret.op = "read_response"
    /\ ret.exc = "StateError"
    /\ pre.inrem # None
    /\ Len(pending_requests) >= 2
    /\ sock_in # <<>>

\* ------------------------------------------------------------ C12
\* C12: on a connected connection send_request fails with StateError while
\* _out_remaining is not None (body bytes owed, for every declared length, 0
\* included, or waiting for 100-continue); it sends nothing and leaves
\* _out_remaining and the queue as they were.
C12_SendRequestFails ==
    /\ (sock /\ out_remaining # NoTuple) =>
           \A b \in {"none", "inline", "following"}, n \in 0..MaxLen :
               /\ co_send_request(Conn, "GET", Len(reqs) + 1, b, n, FALSE).exc = "StateError"
               /\ co_send_request(Conn, "GET", Len(reqs) + 1, b, n, FALSE).c = Conn
    /\ (sock /\ out_remaining # NoTuple) =>
           /\ co_send_request(Conn, "PUT", Len(reqs) + 1, "following", 0, TRUE).exc = "StateError"
           /\ co_send_request(Conn, "PUT", Len(reqs) + 1, "following", 0, TRUE).c = Conn
    /\ (ret.op = "send_request" /\ pre.outrem # NoTuple /\ pre.sock) =>
           /\ ret.exc = "StateError"
           /\ Len(sock_out) = pre.nout
           /\ out_remaining = pre.outrem
           /\ pending_requests = pre.pend

\* send_request has failed while a body of declared length 0 was owed
C12_Witness ==
    /\ ret.op = "send_request"
    /\ ret.exc = "StateError"
    /\ out_remaining # NoTuple
    /\ out_remaining[3] = 0

\* ------------------------------------------------------------ C13
\* the response the last read_response parsed: the one it returned, or the
\* one after those returned so far
Parsed == IF ret.exc = "" THEN Cur ELSE Cur + 1

\* the last operation was a read_response that parsed a response sent with a
\* body (by status and method) and with this Transfer-Encoding
ParsedWithBody(tes) ==
    /\ ret.op = "read_response"
    /\ pre.pend # <<>>
    /\ pre.inrem = None
    /\ Parsed \in 1..Len(srv_sent)
    /\ srv_sent[Parsed].te \in tes
    /\ srv_sent[Parsed].status \notin {204, 304}
    /\ Head(pre.pend)[1] # "HEAD"

\* C13: for a response that is not bodyless by status or method and names a
\* Transfer-Encoding other than chunked and identity, with or without a
\* Content-Length, read_response does not fail and leaves the response open;
\* InvalidResponse is raised by the body reads that follow.
C13_DeferredInvalid ==
    /\ ParsedWithBody({TE_OTHER}) =>
           /\ ret.exc = ""
           /\ in_remaining # None
           /\ \A n \in 1..MaxLen :
                  /\ co_read(Conn, n).exc = "InvalidResponse"
                  /\ co_readinto(Conn, n).exc = "InvalidResponse"
           /\ co_readall(Conn).exc = "InvalidResponse"
           /\ co_discard(Conn).exc = "InvalidResponse"
    /\ (ret.op \in {"read", "readinto", "readall", "discard"}
            /\ pre.inrem # None /\ pre.enc = "InvalidResponse") =>
           ret.exc = "InvalidResponse"

\* ------------------------------------------------------------ C14
\* what C14 says of the connection after read_response
Unsupported ==
    /\ ret.exc = ""
    /\ resps[Len(resps)].length = None
    /\ in_remaining = 0
    /\ \A n \in 1..MaxLen :
           /\ co_read(Conn, n).exc = "UnsupportedResponse"
           /\ co_read(Conn, n).c = Conn
           /\ co_readinto(Conn, n).exc = "UnsupportedResponse"
           /\ co_readinto(Conn, n).c = Conn
    /\ co_readall(Conn).exc = "UnsupportedResponse"
    /\ co_readall(Conn).c = Conn
    /\ co_discard(Conn).exc = "UnsupportedResponse"
    /\ co_discard(Conn).c = Conn
    /\ co_read_response(Conn).exc = "StateError"

Ended == [Conn EXCEPT !.inrem = None, !.pend = Tail(@)]

\* the last operation was a read_response that parsed a response without a
\* body by status or method
ParsedBodyless ==
    /\ ret.op = "read_response"
    /\ pre.pend # <<>>
    /\ pre.inrem = None
    /\ Parsed \in 1..Len(srv_sent)
    /\ srv_sent[Parsed].status \in {204, 304} \/ Head(pre.pend)[1] = "HEAD"

\* C20: for status 204 or 304 and for a response to HEAD, whatever
\* Content-Length and Transfer-Encoding the server sent, read_response reports
\* length 0 with identity encoding and _in_remaining 0; the next body read
\* returns empty, removes the head of the queue and reads no byte, so that the
\* next response is parsed from the byte after the header block.
C20_Bodyless ==
    /\ ParsedBodyless =>
           /\ ret.exc = ""
           /\ resps[Len(resps)].length = 0
           /\ encoding = IDENTITY_ENCODING
           /\ in_remaining = 0
           /\ \A n \in 1..MaxLen :
                  /\ co_read(Conn, n) = Ok(Ended, <<>>)
                  /\ co_readinto(Conn, n) = Ok(Ended, <<>>)
           /\ co_readall(Conn).exc = ""
           /\ co_readall(Conn).val = <<>>
           /\ co_readall(Conn).c = Ended
           /\ co_discard(Conn).exc = ""
           /\ co_discard(Conn).c = Ended
           /\ \A n \in 1..MaxLen : co_read(Ended, n).exc = "StateError"
    /\ \A k \in 1..Len(Finals) :
           /\ k <= Len(srv_sent)
           /\ Finals[k].reason = k
           /\ Finals[k].status = srv_sent[k].status
           /\ Finals[k].method = reqs[k].method
           /\ (Finals[k].status \in {204, 304} \/ Finals[k].method = "HEAD")
                  => Finals[k].length = 0

\* the response to a HEAD request that named an unsupported encoding and no
\* length was read to its end, and the response after it was read
C20_Witness ==
    /\ Len(Finals) = 2
    /\ Finals[1].method = "HEAD"
    /\ srv_sent[1].status = 200
    /\ srv_sent[1].te = TE_OTHER
    /\ srv_sent[1].cl = CL_NONE
    /\ ret.op = "read_response"
    /\ ret.exc = ""

\* ------------------------------------------------------------ C15
\* C15: after disconnect() the socket is None, the read buffer is empty, the
\* queue is empty (response_pending() is false), _out_remaining and
\* _in_remaining are None, and the connection behaves like a new one: write,
\* read_response and read fail with StateError, send_request succeeds.
C15_Disconnected ==
    ret.op = "disconnect" =>
        /\ ~sock
        /\ rbuf.b = 0
        /\ rbuf.e = 0
        /\ pending_requests = <<>>
        /\ ~response_pending(Conn)
        /\ out_remaining = NoTuple
        /\ in_remaining = None
        /\ \A n \in 0..MaxLen : co_write(Conn, n).exc = "StateError"
        /\ co_read_response(Conn).exc = "StateError"
        /\ \A n \in 1..MaxLen : co_read(Conn, n).exc = "StateError"
        /\ co_send_request(Conn, "GET", Len(reqs) + 1, "none", 0, FALSE).exc = ""

\* ------------------------------------------------------------ C16
\* C16: a socket write interrupted by a signal is retried: the step sequence
\* has not failed, and the rest of the buffer is still to be sent, nothing
\* of it skipped or sent twice.
C16_InterruptRetried ==
    snd.last = "interrupt" =>
        /\ snd.pc = "loop"
        /\ snd.exc = ""
        /\ sock_out \o snd.buf = Concat(snd.subs)

\* ------------------------------------------------------------ C17
\* C17: whatever the partial writes and the suspensions, the bytes the socket
\* accepted are a prefix of the concatenation of the buffers in the order they
\* were submitted, and all of it when a send has returned; a step that finds
\* the socket not writable writes nothing and suspends; a send returns only
\* when its whole buffer was accepted.
C17_SendOrder ==
    /\ IsPrefix(sock_out, Concat(snd.subs))
    /\ snd.pc = "idle" => sock_out = Concat(snd.subs)
    /\ snd.pc = "loop" => sock_out \o snd.buf = Concat(snd.subs)
    /\ snd.last = "poll" => Len(sock_out) = snd.before /\ snd.pc = "loop"
    /\ (snd.last = "send" /\ snd.pc = "idle") => snd.buf = <<>>
    /\ (snd.last = "send" /\ snd.buf # <<>>) => snd.pc = "loop"

\* two buffers were sent, the second in several writes after a suspension
C17_Witness ==
    /\ Len(snd.subs) = 2
    /\ snd.pc = "idle"
    /\ snd.last = "send"
    /\ snd.parts >= 2
    /\ snd.polls >= 1
    /\ Len(snd.subs[1]) >= 2

\* ------------------------------------------------------------ C18
\* the bytes of the stream a connection has not consumed: the rest of the
\* read buffer and what the socket still holds
Unread(c) == Slice(c.d, c.b, c.e) \o SelectSeq(c.sin, LAMBDA x : x # GAP)

\* C18: discard() and readall() called on the same connection with the same
\* bytes to come both end the open response (_in_remaining None, the head of
\* the queue removed once) and leave the same bytes unread.
C18_DiscardAsReadAll ==
    (in_remaining # None /\ co_readall(Conn).exc # "BLOCK" /\ co_discard(Conn).exc # "BLOCK") =>
        /\ co_readall(Conn).exc = ""
        /\ co_discard(Conn).exc = ""
        /\ co_readall(Conn).c.inrem = None
        /\ co_discard(Conn).c.inrem = None
        /\ co_readall(Conn).c.pend = Tail(pending_requests)
        /\ co_discard(Conn).c.pend = Tail(pending_requests)
        /\ Unread(co_readall(Conn).c) = Unread(co_discard(Conn).c)
        /\ Concat(co_discard(Conn).parts) = Concat(co_readall(Conn).parts)

\* ------------------------------------------------------------ C19
\* C19 as stated: on a connected socket, while _in_remaining is None, every body
\* read fails with
\* StateError, for every length asked for, 0 included, and for every buffer,
\* the empty one included.
C19_AsStated ==
    (sock /\ in_remaining = None) =>
        \A n \in 0..(MaxLen + 1) :
            /\ co_read(Conn, n).exc = "StateError"
            /\ co_readinto(Conn, n).exc = "StateError"

\* C19 amended: while _in_remaining is None (before any read_response, after
\* the terminal read, after read_response returned status 100) a body read of
\* a positive length or into a non-empty buffer, readall and discard fail
\* with StateError and change nothing; a read of length 0 and a readinto an
\* empty buffer return empty and 0 without an error, and change nothing.
C19_NoOpenResponse ==
    /\ in_remaining = None =>
           /\ \A n \in 1..(MaxLen + 1) :
                  /\ co_read(Conn, n) = Raise(Conn, "StateError")
                  /\ co_readinto(Conn, n) = Raise(Conn, "StateError")
           /\ co_readall(Conn).exc = "StateError"
           /\ co_readall(Conn).c = Conn
           /\ co_discard(Conn).exc = "StateError"
           /\ co_discard(Conn).c = Conn
    /\ co_read(Conn, 0) = Ok(Conn, <<>>)
    /\ co_readinto(Conn, 0) = Ok(Conn, <<>>)
    /\ (ret.op \in {"read", "readinto", "readall", "discard"} /\ pre.inrem = None) =>
           /\ ret.exc = "StateError"
           /\ in_remaining = None
           /\ pending_requests = pre.pend
           /\ out_remaining = pre.outrem
           /\ rbuf.b = pre.b
           /\ rbuf.e = pre.e
           /\ Len(sock_in) >= pre.nin

\* a read has failed with StateError after read_response returned status 100
C19_Witness ==
    /\ ret.op \in {"read", "readinto"}
    /\ ret.exc = "StateError"
    /\ Len(resps) >= 1
    /\ resps[Len(resps)].status = 100
    /\ pending_requests = <<>>

\* ------------------------------------------------------------ C21
\* the last write under the lower-case form lk: the latest set or delete in
\* the log whose key has that form ("none" when there is none)
RECURSIVE LastWrite(_, _)
LastWrite(log, lk) ==
    IF log = <<>> THEN [op |-> "none", key |-> <<>>, val |-> 0]
    ELSE IF lower(log[Len(log)].key) = lk THEN log[Len(log)]
    ELSE LastWrite(SubSeq(log, 1, Len(log) - 1), lk)

\* every casing of a key
Casings(key) ==
    {c \in [1..Len(key) -> {lower_char(key[i]) : i \in 1..Len(key)}
                             \cup {upper_char(key[i]) : i \in 1..Len(key)}] :
        \A i \in 1..Len(key) : c[i] \in {lower_char(key[i]), upper_char(key[i])}}

\* the lower-case forms whose last write was a set
Live == {lower(k) : k \in {k \in Keys : LastWrite(cid.log, lower(k)).op = "set"}}

\* the mappings compared with: plain dicts of at most two items whose keys
\* have different lower-case forms
Others ==
    {<<>>} \cup {<<<<k, v>>>> : k \in Keys, v \in Vals}
    \cup {<<<<k1, v1>>, <<k2, v2>>>> :
             k1 \in {<<65, 66>>, <<97, 98>>}, v1 \in Vals, k2 \in {<<67>>, <<99>>}, v2 \in Vals}

\* the items of a mapping by lower-case form
LowerItems(other) == {<<lower(other[i][1]), other[i][2]>> : i \in 1..Len(other)}

\* C21: after any sequence of set and delete operations, a key last set to v
\* is found, with v, under every casing, and a key last deleted (or never
\* set) under none; the dict has one entry per lower-case form, and len counts
\* them; iteration yields each key in the casing it was last written with;
\* a delete under any casing removes the entry; equality with another mapping
\* compares lower-case forms and values only.
C21_CaseInsensitive ==
    /\ \A k \in Keys : \A c \in Casings(k) :
           IF LastWrite(cid.log, lower(k)).op = "set"
           THEN /\ getitem(cid.store, c) = [exc |-> "", val |-> LastWrite(cid.log, lower(k)).val]
                /\ contains(cid.store, c)
                /\ delitem(cid.store, c).exc = ""
                /\ ~contains(delitem(cid.store, c).store, k)
                /\ len(delitem(cid.store, c).store) = len(cid.store) - 1
           ELSE /\ getitem(cid.store, c).exc = "KeyError"
                /\ ~contains(cid.store, c)
    /\ len(cid.store) = Cardinality(Live)
    /\ \A i, j \in 1..Len(cid.store) : cid.store[i].lk = cid.store[j].lk => i = j
    /\ Len(iter(cid.store)) = Cardinality(Live)
    /\ {iter(cid.store)[i] : i \in 1..Len(cid.store)}
           = {LastWrite(cid.log, lk).key : lk \in Live}
    /\ \A other \in Others :
           eq(cid.store, other)
               <=> LowerItems(other) = {<<lk, LastWrite(cid.log, lk).val>> : lk \in Live}

\* "ab" was set, set again as "AB" with another value, and "c" was deleted
\* after it was set: the dict holds one entry, found under "aB"
C21_Witness ==
    /\ Len(cid.log) = 3
    /\ \E i \in 1..2 : /\ cid.log[i].op = "set" /\ cid.log[i].key = <<97, 98>>
                       /\ cid.log[3].op = "set" /\ cid.log[3].key = <<65, 66>>
                       /\ cid.log[3].val # cid.log[i].val
    /\ iter(cid.store) = <<<<65, 66>>>>
    /\ getitem(cid.store, <<97, 66>>).val = cid.log[3].val
\* ------------------------------------------------------------ C22
\* C22: between public operations, a connect() that failed during tunnel setup,
\* TLS handshake or hostname verification included, the socket is None or in
\* non-blocking mode.
C22_NonBlocking == sock => ~blocking
\* ------------------------------------------------------------ C23
\* the last operation was a send_request that returned without error
Sent == ret.op = "send_request" /\ ret.exc = ""

\* the request sent last
LastReq == reqs[Len(reqs)]

\* C23: after a send_request without error: a bodyless or inline-body request
\* adds (method, path, None) to the tail of the queue and leaves
\* _out_remaining None; a body-following request without expect100 leaves the
\* queue alone and makes _out_remaining (method, path, length); one with
\* expect100 makes _out_remaining (method, path, WAITING_FOR_100c) and adds
\* (method, path, length) to the tail of the queue.  _in_remaining stays.
C23_SendRequest ==
    Sent =>
        /\ in_remaining = pre.inrem
        /\ LastReq.body # "following" =>
               /\ pending_requests = Append(pre.pend, <<LastReq.method, LastReq.path, None>>)
               /\ out_remaining = NoTuple
        /\ (LastReq.body = "following" /\ ~LastReq.expect) =>
               /\ pending_requests = pre.pend
               /\ out_remaining = <<LastReq.method, LastReq.path, LastReq.blen>>
        /\ (LastReq.body = "following" /\ LastReq.expect) =>
               /\ pending_requests
                      = Append(pre.pend, <<LastReq.method, LastReq.path, LastReq.blen>>)
               /\ out_remaining = <<LastReq.method, LastReq.path, WAITING_FOR_100c>>

\* an Expect: 100-continue request was sent behind a request whose response
\* is being read
C23_Witness ==
    /\ Sent
    /\ LastReq.body = "following" /\ LastReq.expect /\ LastReq.blen = MaxLen
    /\ Len(pending_requests) = 2
    /\ in_remaining # None
\* ------------------------------------------------------------ C24
\* the last operation was a write that returned without error
Wrote == ret.op = "write" /\ ret.exc = ""

\* C24: each write without error lowers the count of bytes owed by the number
\* of bytes written, the count is never negative and is the declared length
\* less the bytes written so far; the write that brings the bytes written to
\* the declared length sets _out_remaining to None and adds (method, path,
\* None) to the tail of the queue, and no write before it does.
C24_WriteCountdown ==
    /\ (out_remaining # NoTuple /\ ~Waiting(out_remaining)) =>
           /\ out_remaining[3] >= 0
           /\ out_remaining[3] = reqs[out_remaining[2]].blen - reqs[out_remaining[2]].sent
    /\ Wrote =>
           /\ ret.arg <= pre.outrem[3]
           /\ IF reqs[pre.outrem[2]].sent = reqs[pre.outrem[2]].blen
              THEN /\ out_remaining = NoTuple
                   /\ pending_requests
                          = Append(pre.pend, <<pre.outrem[1], pre.outrem[2], None>>)
              ELSE /\ out_remaining = <<pre.outrem[1], pre.outrem[2], pre.outrem[3] - ret.arg>>
                   /\ pending_requests = pre.pend
    /\ \A k \in 1..Len(reqs) :
           (reqs[k].body = "following" /\ reqs[k].sent < reqs[k].blen) =>
               \A i \in 1..Len(pending_requests) :
                   pending_requests[i] # <<reqs[k].method, k, None>>

\* a body of the longest declared length was completed by a write of one
\* byte, after more than one write
C24_Witness ==
    /\ Wrote
    /\ ret.arg = 1
    /\ reqs[pre.outrem[2]].blen = MaxDecl
    /\ out_remaining = NoTuple
    /\ Len(pending_requests) >= 1
\* ------------------------------------------------------------ C25
\* read_response has returned a final response for request k
Answered(k) == \E i \in 1..Len(resps) : resps[i].status # 100 /\ resps[i].path = k

\* request k owes no more body bytes: it has no body or an inline one, or its
\* declared body was written completely, or its 100-continue was rejected
OwesNothing(k) ==
    \/ reqs[k].body # "following"
    \/ reqs[k].sent = reqs[k].blen
    \/ reqs[k].expect /\ ~Continued(k) /\ Answered(k)

\* C25: between operations _out_remaining is None iff the request sent last
\* owes no more body bytes, for every declared length, a body-following
\* declaration of length 0 included.
C25_OutRemaining ==
    /\ reqs = <<>> => out_remaining = NoTuple
    /\ reqs # <<>> => (out_remaining = NoTuple <=> OwesNothing(Len(reqs)))
\* ------------------------------------------------------------ C26
\* request k awaits the provisional status to its Expect: 100-continue headers
Awaiting(k) == reqs[k].expect /\ ~Continued(k)

\* every byte of request k was handed to the send path
SentCompletely(k) == reqs[k].body # "following" \/ reqs[k].sent = reqs[k].blen

\* the requests the queue is to hold: sent completely or awaiting their
\* provisional status, and their response not read to the end
Queued == {k \in 1..Len(reqs) : k > Completed /\ (SentCompletely(k) \/ Awaiting(k))}

\* C26: between operations the queue holds, in send order, exactly one entry
\* for each request whose response is not consumed and that was sent
\* completely or awaits its provisional status; the entry of an Expect:
\* 100-continue request carries the pending body size while the request
\* awaits the status and None once its body was sent; no request has two
\* entries.
C26_Queue ==
    /\ Len(pending_requests) = Cardinality(Queued)
    /\ \A i \in 1..Len(pending_requests) :
           /\ pending_requests[i][2] \in Queued
           /\ pending_requests[i][1] = reqs[pending_requests[i][2]].method
           /\ pending_requests[i][3] = IF Awaiting(pending_requests[i][2])
                                       THEN reqs[pending_requests[i][2]].blen
                                       ELSE None
    /\ \A i, j \in 1..Len(pending_requests) :
           i < j => pending_requests[i][2] < pending_requests[j][2]
\* ------------------------------------------------------------ C27
\* the last operation was a read_response that returned a descriptor
ReadResp == ret.op = "read_response" /\ ret.exc = ""

\* the descriptor returned last
LastResp == resps[Len(resps)]

\* the bytes the last operation consumed, at least
Consumed == (pre.e - pre.b + pre.nin) - (rbuf.e - rbuf.b + Len(sock_in))

\* the connection with these bytes as its unread stream, the buffer empty
WithStream(c, bytes) ==
    [c EXCEPT !.d = Zeros(BUFFER_SIZE), !.b = 0, !.e = 0, !.sin = bytes]

\* what of a read_response the caller and the next operation see
Outcome(r) ==
    [exc |-> r.exc, val |-> r.val, pend |-> r.c.pend, outrem |-> r.c.outrem,
     inrem |-> r.c.inrem, enc |-> r.c.enc, unread |-> Unread(r.c)]

\* the provisional statuses read_response skips at the head of this queue
Skipped(pend) == IF Head(pend)[3] # None THEN Infos \ {100} ELSE Infos

\* C27: read_response returns no 1xx status but 100, and 100 only when the
\* head of the queue carries a pending body size; every other provisional
\* response is consumed with its header block and parsing goes on with the
\* next status line: the descriptor returned is that of the final response
\* to the request at the head of the queue, the body read after it is the
\* body of that response, and queue, _out_remaining and _in_remaining are
\* what they are without the skipped response.
C27_Provisional ==
    /\ \A i \in 1..Len(resps) :
           (resps[i].status >= 100 /\ resps[i].status <= 199) =>
               resps[i].status = 100 /\ reqs[resps[i].path].expect
    /\ ReadResp =>
           /\ LastResp.path = Head(pre.pend)[2]
           /\ LastResp.reason = LastResp.path
           /\ LastResp.status = 100 => Head(pre.pend)[3] # None
           /\ LastResp.status # 100 =>
                  /\ LastResp.status = srv_sent[Cur].status
                  /\ pending_requests = pre.pend
                  /\ out_remaining = IF Head(pre.pend)[3] # None THEN NoTuple ELSE pre.outrem
                  /\ in_remaining = Len(srv_sent[Cur].body)
    /\ (in_remaining # None /\ Cur >= 1) =>
           /\ IsPrefix(got, srv_sent[Cur].body)
           /\ IsPrefix(SubSeq(srv_sent[Cur].body, Len(got) + 1, Len(srv_sent[Cur].body)),
                       Unread(Conn))
    /\ (pending_requests # <<>> /\ in_remaining = None) =>
           \A st \in Skipped(pending_requests) :
               Outcome(co_read_response(WithStream(Conn,
                           StatusLine(st, Head(pending_requests)[2]) \o CRLF \o Unread(Conn))))
                   = Outcome(co_read_response(WithStream(Conn, Unread(Conn))))

\* read_response returned the final response to a request that expects no
\* 100, a 204 without header fields, and consumed at least one provisional
\* response before it
C27_Witness ==
    /\ ReadResp
    /\ LastResp.status = 204
    /\ ~reqs[LastResp.path].expect
    /\ Consumed >= Len(StatusLine(102, 1) \o CRLF) + Len(StatusLine(204, 1) \o CRLF)
\* ------------------------------------------------------------ C28
\* the status lines among these bytes (each begins with the HTTP version)
StatusLines(bytes) == Len(SelectSeq(bytes, LAMBDA x : x = HTTPVER))

\* the unread stream begins with the status line of the response after the
\* one read last, when the server has sent it
AtNextResponse ==
    /\ Unread(Conn) # <<>> => Head(Unread(Conn)) = HTTPVER
    /\ StatusLines(Unread(Conn)) = Len(srv_sent) - Cur

\* C28: for a chunked response, when a read or readinto (or readall, discard)
\* that met the zero-size chunk returns, the CRLF that ends the body is
\* consumed: the unread stream begins with the status line of the next
\* response; when a read that drained a chunk returns, the CRLF after it
\* is consumed: the unread stream begins with the next chunk-size line; the
\* read_response after a chunked body returns the descriptor of the next
\* response.
C28_ChunkTrailer ==
    /\ (CurKind("chunked") /\ TerminalRead) => AtNextResponse
    /\ (CurKind("chunked") /\ in_remaining = 0 /\ ret.exc = ""
            /\ ret.op \in {"read_response", "read", "readinto", "readall", "discard"}) =>
           Unread(Conn) # <<>> /\ IsDigit(Head(Unread(Conn)))
    /\ (ReadResp /\ Cur >= 2 /\ srv_sent[Cur - 1].kind = "chunked") =>
           /\ LastResp.reason = LastResp.path
           /\ LastResp.status = srv_sent[Cur].status
    /\ (ret.op = "read_response" /\ Cur >= 1 /\ srv_sent[Cur].kind = "chunked"
            /\ pre.inrem = None /\ pre.pend # <<>>) => ret.exc = ""

\* a readinto met the zero-size chunk of a body of two chunks, with the
\* pipelined response behind it already in the stream
C28_Witness ==
    /\ TerminalRead
    /\ ret.op = "readinto"
    /\ CurKind("chunked")
    /\ Len(srv_sent[Cur].body) = 2
    /\ Cur = 1
    /\ Len(srv_sent) = 2
    /\ Unread(Conn) # <<>>
\* ------------------------------------------------------------ C29
\* the delimiter of the last delimiter-bounded read, and the stream it read
Delim == IF ret.arg = Len(CRLF) THEN CRLF ELSE CRLFCRLF
Stream == srv_sent[1].body

\* where the shortest prefix of the stream that ends with the delimiter ends
\* (-1 when the delimiter is not in the stream)
PrefixEnd ==
    IF FindIn(Stream, Delim) < 0 THEN -1 ELSE FindIn(Stream, Delim) + Len(Delim)

\* C29: the delimiter-bounded read returns the shortest prefix of the unread
\* stream that ends with the delimiter, and leaves unread exactly the bytes
\* after it, for CRLF and CRLFCRLF, every position of the begin cursor and
\* every split of the stream across socket reads.
C29_ReadUntil ==
    (ret.op = "readstr" /\ PrefixEnd >= 0 /\ PrefixEnd <= MAX_LINE_SIZE) =>
        /\ ret.exc = ""
        /\ ret.val = Slice(Stream, 0, PrefixEnd)
        /\ Unread(Conn) = Slice(Stream, PrefixEnd, Len(Stream))
\* ------------------------------------------------------------ C30
\* the last operation was a read or readinto that returned body data of a
\* response with inbound remainder left (of the body, or of the chunk)
DataRead ==
    /\ ret.op \in {"read", "readinto"}
    /\ ret.exc = ""
    /\ pre.inrem # None
    /\ pre.inrem # 0

\* C30: a read or readinto of identity data (a body with Content-Length, or
\* the data of a chunk) returns at most min(requested, inbound remainder)
\* bytes and lowers the inbound remainder by the number of bytes returned;
\* the inbound remainder is never negative, and the bytes returned for a
\* response with Content-Length are the bytes of its own body in order, never
\* bytes of the response behind it.
C30_IdentityRead ==
    /\ DataRead =>
           /\ Len(ret.val) <= Min(ret.arg, pre.inrem)
           /\ in_remaining # None
           /\ in_remaining = pre.inrem - Len(ret.val)
    /\ in_remaining # None => in_remaining >= 0
    /\ CurKind("id") => IsPrefix(got, srv_sent[Cur].body)

\* a read asked for more than the body has left, with the pipelined response
\* behind it already received: it got the rest of the body and no more
C30_Witness ==
    /\ DataRead
    /\ CurKind("id")
    /\ ret.arg > pre.inrem
    /\ Len(ret.val) = pre.inrem
    /\ pre.inrem >= 2
    /\ in_remaining = 0
    /\ Cur = 1
    /\ Len(srv_sent) = 2
    /\ Unread(Conn) # <<>>
\* ------------------------------------------------------------ C31
\* C31: after every operation on the read buffer the cursors satisfy
\* 0 <= begin <= end <= capacity; compact moves the unread bytes to position
\* 0, unchanged, in a buffer of the same capacity; exhaust returns the unread
\* bytes and sets both cursors to 0.
C31_Cursors ==
    /\ 0 <= rbuf.b /\ rbuf.b <= rbuf.e /\ rbuf.e <= BUFFER_SIZE
    /\ Len(rbuf.d) = BUFFER_SIZE
    /\ ret.op = "compact" =>
           rbuf.b = 0 /\ rbuf.e = pre.e - pre.b /\ Slice(rbuf.d, 0, rbuf.e) = ret.parts[1]
    /\ ret.op = "exhaust" => ret.val = ret.parts[1] /\ rbuf.b = 0 /\ rbuf.e = 0
    /\ ret.op = "clear" => rbuf.b = 0 /\ rbuf.e = 0
\* ------------------------------------------------------------ C32
\* the positions of the queue entries with a pending body size
WithBodySize == {i \in 1..Len(pending_requests) : pending_requests[i][3] # None}

\* read_response would take the head of the queue and read its status
HeadAwaits100 ==
    /\ pending_requests # <<>>
    /\ in_remaining = None
    /\ Head(pending_requests)[3] # None

\* C32: while every operation of the one driver has succeeded, at most one
\* queue entry carries a pending body size, and when read_response finds such
\* an entry at the head of the queue the outbound remainder is (method, path,
\* WAITING_FOR_100c) of that request; the assertions of read_response never
\* fail.
C32_Assertions ==
    /\ Succeeded => Cardinality(WithBodySize) <= 1
    /\ (Succeeded /\ HeadAwaits100) =>
           out_remaining = <<Head(pending_requests)[1], Head(pending_requests)[2],
                             WAITING_FOR_100c>>
    /\ ~(ret.op = "read_response" /\ ret.exc = "AssertionError")

\* the head of the queue while the body of its response is being read
OpenHead == IF in_remaining # None THEN {1} ELSE {}

\* C32 (amended): while every operation of the one driver has succeeded, at
\* most one queue entry whose response has not been read carries a pending
\* body size, and it is the last entry; the head of the queue keeps its
\* pending body size while the body of the response that refused it is read.
\* When read_response finds an entry with a pending body size at the head,
\* the outbound remainder is (method, path, WAITING_FOR_100c) of that request,
\* and the assertions of read_response never fail.
C32_AwaitingLast ==
    /\ Succeeded => Cardinality(WithBodySize \ OpenHead) <= 1
    /\ Succeeded => \A i \in WithBodySize \ OpenHead : i = Len(pending_requests)
    /\ (Succeeded /\ HeadAwaits100) =>
           out_remaining = <<Head(pending_requests)[1], Head(pending_requests)[2],
                             WAITING_FOR_100c>>
    /\ ~(ret.op = "read_response" /\ ret.exc = "AssertionError")

\* read_response returned the status 100 of a second Expect: 100-continue
\* request, which was sent while the body of the response refusing the first
\* was still unread
C32_Witness ==
    /\ ret.op = "read_response"
    /\ Succeeded
    /\ Len(resps) = 2
    /\ resps[1].status = 413
    /\ resps[2].status = 100
    /\ resps[2].path = 2
    /\ Len(reqs) = 2
    /\ reqs[2].sent = 0
    /\ pre.pend # <<>>
    /\ pre.pend[1][3] # None
    /\ out_remaining = <<"PUT", 2, reqs[2].blen>>
\* ------------------------------------------------------------ C33
\* the paths in the queue, in order
QueuePaths == [i \in 1..Len(pending_requests) |-> pending_requests[i][2]]

\* C33: when the steps of a suspended send_request are interleaved with whole
\* read_response and body reads for the requests before it, every read
\* returns what it returns in the sequential execution (the reads, then the
\* send_request), and once the send_request has ended the queue, the outbound
\* and the inbound remainder are those of the sequential execution; no queue
\* entry is lost or duplicated, and the responses are matched to the requests
\* in the order they were sent.
C33_Interleaved ==
    /\ seq.same
    /\ seq.susp = <<>> =>
           /\ pending_requests = seq.c.pend
           /\ out_remaining = seq.c.outrem
           /\ in_remaining = seq.c.inrem
           /\ encoding = seq.c.enc
           /\ sock_out = seq.c.sout
    /\ \A i \in 1..Len(QueuePaths) :
           /\ QueuePaths[i] <= Len(reqs) + Len(seq.susp)
           /\ \A j \in 1..Len(QueuePaths) : i < j => QueuePaths[i] < QueuePaths[j]
    /\ \A k \in 1..Len(Finals) :
           /\ k <= Len(reqs) /\ k <= Len(srv_sent)
           /\ Finals[k].path = reqs[k].path
           /\ Finals[k].method = reqs[k].method
           /\ Finals[k].status = srv_sent[k].status

\* a send_request with Expect: 100-continue was suspended, read_response and
\* a body read for the request before it returned meanwhile, and it was
\* resumed and has ended
C33_Witness ==
    /\ ret.op = "send_request"
    /\ ret.exc = ""
    /\ seq.susp = <<>>
    /\ seq.mid >= 2
    /\ Len(reqs) = 2
    /\ reqs[2].expect
    /\ Len(Finals) = 1
    /\ in_remaining = None
    /\ pending_requests = <<<<"PUT", 2, reqs[2].blen>>>>
    /\ out_remaining = <<"PUT", 2, WAITING_FOR_100c>>

\* ------------------------------------------------------------ C34
\* the status line and header block of the response read_response is to read
NextHead ==
    IF Len(srv_sent) <= Len(resps) THEN <<>>
    ELSE LET k == srv_sent[Len(resps) + 1]
         IN  StatusLine(k.status, Len(resps) + 1)
             \o (IF k.kind = "empty" THEN CRLF ELSE HeaderBlock(k.te, k.cl))

\* the read buffer holds what the call in progress needs: the whole head of
\* the response for read_response, a byte of an identity body (or its end)
\* for read and readinto, the rest of an identity body for readall and discard
NeedsBuffered ==
    \/ /\ live.op = "read_response"
       /\ NextHead # <<>>
       /\ IsPrefix(NextHead, Slice(rbuf.d, rbuf.b, rbuf.e))
    \/ /\ live.op \in {"read", "readinto"}
       /\ encoding = IDENTITY_ENCODING
       /\ in_remaining = 0 \/ rbuf.e - rbuf.b >= 1
    \/ /\ live.op \in {"readall", "discard"}
       /\ encoding = IDENTITY_ENCODING
       /\ rbuf.e - rbuf.b >= in_remaining

\* every call that has ended, ended with a value
C34_Value == ret.exc = ""

\* a call waits for the socket only when the buffer does not hold what it needs
C34_NoNeedlessSuspend == Suspended => ~NeedsBuffered

\* every call ends (the evaluation of each step ends, so no call loops
\* without a PollRequest)
C34_Terminates == (live.op # "none") ~> (live.op = "none")

\* a call that read an identity or empty response ended with a value
C34_ValueUnchunked == (\A i \in 1..Len(srv_sent) : srv_sent[i].kind # "chunked") => C34_Value

\* C34: under a fair driver and a peer that delivers a complete well-formed
\* response, every call (send_request, write, read_response, read, readinto,
\* readall, discard) eventually ends with a value, and none waits for the
\* socket while the bytes it needs are in the read buffer.
C34_Liveness == []C34_Value /\ []C34_NoNeedlessSuspend /\ C34_Terminates

=============================================================================
